---- MODULE Spec2Model ----
(***************************************************************************)
(* A model of the middle-end of the Leo compiler: the Static Single        *)
(* Assignment pass (expression consumption), the flattening pass           *)
(* (Flattener::reconstruct_function, which folds early returns and         *)
(* finalize invocations) and the code generator (statement and type        *)
(* emission).                                                              *)
(***************************************************************************)
EXTENDS Integers, Sequences, FiniteSets, TLC

VARIABLES
    flattener,   \* Flattener: [returns, finalizes, counter]
    function,    \* the Function handed to reconstruct_function, or NoFunction
    flattened,   \* the Function returned by reconstruct_function, or NoFunction
    generator,   \* CodeGenerator: [variable_mapping, composite_mapping,
                 \*                 current_function, next_register]
    visited,     \* the statement or type handed to the code generator last
    emitted,     \* what the code generator returned for it
    assigner,    \* StaticSingleAssigner: [counter, rename_table, circuits, is_lhs, created]
    consumed,    \* the expression or statement handed to the SSA pass last
    produced,    \* what the SSA pass returned for it
    ssa_block,   \* the statements the SSA pass has emitted for the function so far
    disk,        \* the file system: [dirs, files]
    call         \* the last call on the AleoFile and what it returned, or NoCall

flatten_vars == <<flattener, function, flattened>>

codegen_vars == <<generator, visited, emitted>>

ssa_vars == <<assigner, consumed, produced, ssa_block>>

package_vars == <<disk, call>>

vars == <<flattener, function, flattened, generator, visited, emitted,
          assigner, consumed, produced, ssa_block, disk, call>>

(***************************************************************************)
(* Bounds of the model.                                                    *)
(***************************************************************************)
MaxReturns == 3        \* return statements in a function body
MaxFinalizeStmts == 2  \* finalize invocations in a function body
MaxFinalizeInputs == 2 \* inputs of a finalize block
MaxBlockReturns == 2   \* return statements in a finalize block
MaxCounter == 6        \* the flattener takes no new function above this counter
MaxTupleSize == 2      \* members of a function's tuple return type
MaxCreated == 2        \* the SSA pass takes no new input above this many fresh names
MaxRegister == 3    \* console statements are visited while next_register is at most this

(***************************************************************************)
(* Sequence helpers.                                                       *)
(***************************************************************************)
Range(s) == {s[i] : i \in 1..Len(s)}

Last(s) == s[Len(s)]

SeqsUpTo(S, n) == UNION {[1..k -> S] : k \in 0..n}

RECURSIVE FlattenSeq(_)
FlattenSeq(ss) ==
    IF ss = <<>> THEN <<>> ELSE Head(ss) \o FlattenSeq(Tail(ss))

(***************************************************************************)
(* The AST.  In the input of the flattening pass guards and payloads are   *)
(* atomic (identifiers or literals) and a Return or Finalize statement     *)
(* carries the path guard under which it is reached.                       *)
(***************************************************************************)
NoFunction == [none |-> TRUE]

AssignStatement(place, value) ==
    [kind |-> "Assign", place |-> place, value |-> value]

ReturnStatement(expression) ==
    [kind |-> "Return", expression |-> expression]

FinalizeStatement(arguments) ==
    [kind |-> "Finalize", arguments |-> arguments]

GuardedReturn(guard, expression) ==
    [kind |-> "Return", guard |-> guard, expression |-> expression]

GuardedFinalize(guard, arguments) ==
    [kind |-> "Finalize", guard |-> guard, arguments |-> arguments]

Identifier(name) == [kind |-> "Identifier", name |-> name]

Literal(value) == [kind |-> "Literal", value |-> value]

TupleExpression(elements) == [kind |-> "Tuple", elements |-> elements]

CallExpression(callee, arguments) ==
    [kind |-> "Call", function |-> callee, arguments |-> arguments]

BinaryExpression(op, left, right) ==
    [kind |-> "Binary", op |-> op, left |-> left, right |-> right]

UnaryExpression(op, receiver) == [kind |-> "Unary", op |-> op, receiver |-> receiver]

NoExpression == [kind |-> "None"]

CircuitVariableInitializer(identifier, expression) ==
    [identifier |-> identifier, expression |-> expression]

CircuitExpression(name, members) ==
    [kind |-> "Circuit", name |-> name, members |-> members]

MemberAccess(inner, name) == [kind |-> "MemberAccess", inner |-> inner, name |-> name]

TupleAccess(tuple, index) == [kind |-> "TupleAccess", tuple |-> tuple, index |-> index]

AssociatedFunction(ty, name, args) ==
    [kind |-> "AssociatedFunction", ty |-> ty, name |-> name, args |-> args]

AssociatedConstant(ty, name) == [kind |-> "AssociatedConstant", ty |-> ty, name |-> name]

IncrementStatement(mapping, index, amount) ==
    [kind |-> "Increment", mapping |-> mapping, index |-> index, amount |-> amount]

DecrementStatement(mapping, index, amount) ==
    [kind |-> "Decrement", mapping |-> mapping, index |-> index, amount |-> amount]

TernaryExpression(condition, if_true, if_false) ==
    [kind |-> "Ternary", condition |-> condition, if_true |-> if_true,
     if_false |-> if_false]

(***************************************************************************)
(* Assigner::unique_symbol: <prefix>$<counter>, the counter is bumped.     *)
(***************************************************************************)
unique_symbol(arg, counter) == arg \o "$" \o ToString(counter)

(***************************************************************************)
(* Flattener::clear_early_returns / clear_early_finalizes: the accumulator *)
(* is drained (taken and left empty).                                      *)
(***************************************************************************)
clear_early_returns(self) ==
    [taken |-> self.returns, self |-> [self EXCEPT !.returns = <<>>]]

clear_early_finalizes(self) ==
    [taken |-> self.finalizes, self |-> [self EXCEPT !.finalizes = <<>>]]

(***************************************************************************)
(* Flattener::fold_guards on a non-empty list <<g_1,v_1>>, ...,            *)
(* <<g_n,v_n>>: acc := v_n; for i = n-1 down to 1: acc := g_i ? v_i : acc, *)
(* each ternary bound to a fresh name <prefix>$<counter>.                  *)
(***************************************************************************)
RECURSIVE fold_from(_, _, _, _, _, _)
fold_from(prefix, guards, i, acc, stmts, counter) ==
    IF i = 0
    THEN [expression |-> acc, stmts |-> stmts, counter |-> counter]
    ELSE LET place == Identifier(unique_symbol(prefix, counter))
             value == TernaryExpression(guards[i][1], guards[i][2], acc)
         IN  fold_from(prefix, guards, i - 1, place,
                       Append(stmts, AssignStatement(place, value)), counter + 1)

fold_guards(prefix, guards, counter) ==
    fold_from(prefix, guards, Len(guards) - 1, guards[Len(guards)][2], <<>>, counter)

(***************************************************************************)
(* Flattener::reconstruct_block: a Return is recorded in self.returns, the *)
(* i-th argument of a Finalize in self.finalizes[i]; neither stays in the  *)
(* block.  Every other statement is kept.                                  *)
(***************************************************************************)
RECURSIVE reconstruct_block(_, _)
reconstruct_block(self, block) ==
    IF block = <<>>
    THEN [self |-> self, block |-> <<>>]
    ELSE LET stmt == Head(block)
             self1 ==
                 CASE stmt.kind = "Return" ->
                        [self EXCEPT !.returns = Append(@, <<stmt.guard, stmt.expression>>)]
                   [] stmt.kind = "Finalize" ->
                        [self EXCEPT !.finalizes =
                            [i \in 1..Len(@) |-> Append(@[i], <<stmt.guard, stmt.arguments[i]>>)]]
                   [] OTHER -> self
             rest == reconstruct_block(self1, Tail(block))
         IN  [self |-> rest.self,
              block |-> IF stmt.kind \in {"Return", "Finalize"}
                        THEN rest.block
                        ELSE <<stmt>> \o rest.block]

(***************************************************************************)
(* Flattener::reconstruct_function, first part: the finalize block is      *)
(* flattened, its returns folded into one Return at its end, and           *)
(* self.finalizes is set to one empty vector per input of the block.       *)
(***************************************************************************)
flatten_finalize(self, finalize) ==
    IF ~finalize.present
    THEN [self |-> self, finalize |-> finalize]
    ELSE LET rb == reconstruct_block(self, finalize.block)
             cleared == clear_early_returns(rb.self)
             returns == cleared.taken
             folded == IF returns # <<>>
                       THEN fold_guards("ret$", returns, cleared.self.counter)
                       ELSE [expression |-> Identifier(""), stmts |-> <<>>,
                             counter |-> cleared.self.counter]
             block == IF returns # <<>>
                      THEN rb.block \o folded.stmts \o <<ReturnStatement(folded.expression)>>
                      ELSE rb.block
         IN  [self |-> [cleared.self EXCEPT
                            !.counter = folded.counter,
                            !.finalizes = [i \in 1..Len(finalize.input) |-> <<>>]],
              finalize |-> [finalize EXCEPT !.block = block]]

(***************************************************************************)
(* Second part: the returns recorded in the body are drained and folded;   *)
(* the fold assignments, then the Return, are appended to the block.       *)
(***************************************************************************)
fold_returns_dropping_stmts(self, block) ==
    LET cleared == clear_early_returns(self)
        returns == cleared.taken
    IN  IF returns = <<>>
        THEN [self |-> cleared.self, block |-> block]
        ELSE LET folded == fold_guards("ret$", returns, cleared.self.counter)
             IN  [self |-> [cleared.self EXCEPT !.counter = folded.counter],
                  block |-> block \o <<ReturnStatement(folded.expression)>>]

fold_returns_without_clear(self, block) ==
    IF self.returns = <<>>
    THEN [self |-> self, block |-> block]
    ELSE LET folded == fold_guards("ret$", self.returns, self.counter)
         IN  [self |-> [self EXCEPT !.counter = folded.counter],
              block |-> block \o folded.stmts \o <<ReturnStatement(folded.expression)>>]

fold_returns(self, block) ==
    LET cleared == clear_early_returns(self)
        returns == cleared.taken
    IN  IF returns = <<>>
        THEN [self |-> cleared.self, block |-> block]
        ELSE LET folded == fold_guards("ret$", returns, cleared.self.counter)
             IN  [self |-> [cleared.self EXCEPT !.counter = folded.counter],
                  block |-> block \o folded.stmts \o <<ReturnStatement(folded.expression)>>]

(***************************************************************************)
(* Third part: the finalize arguments recorded in the body are drained;    *)
(* if some position holds a value, every position is folded in turn (its   *)
(* fold assignments appended to the block as they are made) and one        *)
(* Finalize is appended.                                                   *)
(***************************************************************************)
RECURSIVE fold_components(_, _, _, _, _)
fold_components_without_last(finalizes, i, counter, stmts, arguments) ==
    IF i >= Len(finalizes)
    THEN [counter |-> counter, stmts |-> stmts, arguments |-> arguments]
    ELSE LET folded == fold_guards("fin$" \o ToString(i - 1) \o "$", finalizes[i], counter)
         IN  fold_components(finalizes, i + 1, folded.counter,
                             stmts \o folded.stmts, Append(arguments, folded.expression))

fold_components(finalizes, i, counter, stmts, arguments) ==
    IF i > Len(finalizes)
    THEN [counter |-> counter, stmts |-> stmts, arguments |-> arguments]
    ELSE LET folded == fold_guards("fin$" \o ToString(i - 1) \o "$", finalizes[i], counter)
         IN  fold_components(finalizes, i + 1, folded.counter,
                             stmts \o folded.stmts, Append(arguments, folded.expression))

fold_finalizes_without_push(self, block) ==
    LET cleared == clear_early_finalizes(self)
        finalizes == cleared.taken
        contains_finalize == \E i \in 1..Len(finalizes) : finalizes[i] # <<>>
    IN  IF ~contains_finalize
        THEN [self |-> cleared.self, block |-> block]
        ELSE LET folded == fold_components(finalizes, 1, cleared.self.counter, <<>>, <<>>)
             IN  [self |-> [cleared.self EXCEPT !.counter = folded.counter],
                  block |-> block \o folded.stmts]

fold_finalizes(self, block) ==
    LET cleared == clear_early_finalizes(self)
        finalizes == cleared.taken
        contains_finalize == \E i \in 1..Len(finalizes) : finalizes[i] # <<>>
    IN  IF ~contains_finalize
        THEN [self |-> cleared.self, block |-> block]
        ELSE LET folded == fold_components(finalizes, 1, cleared.self.counter, <<>>, <<>>)
             IN  [self |-> [cleared.self EXCEPT !.counter = folded.counter],
                  block |-> block \o folded.stmts \o <<FinalizeStatement(folded.arguments)>>]

(***************************************************************************)
(* Flattener::reconstruct_function.                                        *)
(***************************************************************************)
reconstruct_function_body_first(self, fn) ==
    LET rb == reconstruct_block(self, fn.block)
        fin == flatten_finalize(rb.self, fn.finalize)
        ret == fold_returns(fin.self, rb.block)
        out == fold_finalizes(ret.self, ret.block)
    IN  [self |-> out.self,
         function |-> [fn EXCEPT !.block = out.block, !.finalize = fin.finalize]]

reconstruct_function(self, fn) ==
    LET fin == flatten_finalize(self, fn.finalize)
        rb == reconstruct_block(fin.self, fn.block)
        ret == fold_returns(rb.self, rb.block)
        out == fold_finalizes(ret.self, ret.block)
    IN  [self |-> out.self,
         function |-> [fn EXCEPT !.block = out.block, !.finalize = fin.finalize]]

(***************************************************************************)
(* The functions handed to the flattener.  A body is an assignment, the    *)
(* finalize invocations, an assignment and the returns; the finalize block *)
(* is an assignment and its returns.  A function invokes finalize only if  *)
(* it has a finalize block, with one argument per input of the block.      *)
(***************************************************************************)
GuardNames == {"c0", "c1"}

Guards == {Identifier(g) : g \in GuardNames} \cup {Literal("true")}

GuardAt(j) == Identifier(IF j % 2 = 1 THEN "c0" ELSE "c1")

Ordinal(prefix, n) == [i \in 1..n |-> prefix \o ToString(i)]

Atom(prefix, i) == Identifier(prefix \o ToString(i))

NoFinalize == [present |-> FALSE, input |-> <<>>, block |-> <<>>]

FinalizeBlocks ==
    {[present |-> TRUE,
      input |-> Ordinal("p", k),
      block |-> <<AssignStatement(Identifier("m"), Identifier("p"))>>
                \o [j \in 1..r |-> GuardedReturn(GuardAt(j), Atom("w", j))]] :
        k \in 0..MaxFinalizeInputs, r \in 0..MaxBlockReturns}

FinalizeInvocations(k, n) ==
    [j \in 1..n |->
        GuardedFinalize(GuardAt(j),
                        [i \in 1..k |-> Atom("f" \o ToString(j) \o "_", i)])]

ReturnLists ==
    {[j \in 1..Len(gs) |-> GuardedReturn(gs[j], Atom("v", j))] :
        gs \in SeqsUpTo(Guards, MaxReturns)}

Body(invocations, returns) ==
    <<AssignStatement(Identifier("a"), Identifier("x"))>> \o invocations
        \o <<AssignStatement(Identifier("b"), Identifier("y"))>> \o returns

Functions ==
    {[block |-> Body(<<>>, rs), finalize |-> NoFinalize] : rs \in ReturnLists}
    \cup
    {[block |-> Body(FinalizeInvocations(Len(fb.input), n), rs), finalize |-> fb] :
        rs \in ReturnLists, fb \in FinalizeBlocks, n \in 0..MaxFinalizeStmts}

(***************************************************************************)
(* The code generator.  A String is modelled as the sequence of the        *)
(* fragments written to it: format! and push_str concatenate, join puts    *)
(* the separator between the pieces and split('\n') cuts at the "\n"       *)
(* fragments.  A panic (todo!, unreachable!, unwrap of None) is a result   *)
(* with halted = TRUE.                                                     *)
(***************************************************************************)
PrimitiveTypes ==
    {"Address", "Boolean", "Field", "Group", "Scalar", "String",
     "I8", "I16", "I32", "I64", "I128", "U8", "U16", "U32", "U64", "U128"}

PrimitiveType(variant) == [kind |-> variant, name |-> "", types |-> <<>>]

CompositeType(name) == [kind |-> "Identifier", name |-> name, types |-> <<>>]

TupleType(types) == [kind |-> "Tuple", name |-> "", types |-> types]

ErrType == [kind |-> "Err", name |-> "", types |-> <<>>]

\* Display of a primitive Type: its keyword.
TypeDisplay(variant) ==
    CASE variant = "Address" -> "address" [] variant = "Boolean" -> "boolean"
      [] variant = "Field" -> "field"     [] variant = "Group" -> "group"
      [] variant = "Scalar" -> "scalar"   [] variant = "String" -> "string"
      [] variant = "I8" -> "i8"           [] variant = "I16" -> "i16"
      [] variant = "I32" -> "i32"         [] variant = "I64" -> "i64"
      [] variant = "I128" -> "i128"       [] variant = "U8" -> "u8"
      [] variant = "U16" -> "u16"         [] variant = "U32" -> "u32"
      [] variant = "U64" -> "u64"         [] variant = "U128" -> "u128"

\* str::to_lowercase on the composite names of the model.
to_lowercase(name) ==
    CASE name = "Token" -> "token"
      [] name = "BoardState" -> "boardstate"
      [] name = "point" -> "point"
      [] name = "Ghost" -> "ghost"

\* Display of a ParamMode.
ModeDisplay(mode) ==
    CASE mode = "Private" -> "private"
      [] mode = "Public" -> "public"
      [] mode = "Const" -> "constant"

NoMode == "None"

unwrap_or(option, default) == IF option = NoMode THEN default ELSE option

Halted == [halted |-> TRUE, text |-> <<>>]

Emitted(text) == [halted |-> FALSE, text |-> text]

\* Iterator::join: the pieces with the separator between them.
RECURSIVE Join(_, _)
Join(pieces, separator) ==
    IF pieces = <<>> THEN <<>>
    ELSE IF Len(pieces) = 1 THEN pieces[1]
    ELSE pieces[1] \o <<separator>> \o Join(Tail(pieces), separator)

\* str::split: the pieces between the separator fragments, at least one.
RECURSIVE Split(_, _)
Split(text, separator) ==
    IF \A i \in 1..Len(text) : text[i] # separator
    THEN <<text>>
    ELSE LET cut == CHOOSE i \in 1..Len(text) :
                        /\ text[i] = separator
                        /\ \A j \in 1..(i - 1) : text[j] # separator
         IN  <<SubSeq(text, 1, cut - 1)>> \o Split(SubSeq(text, cut + 1, Len(text)), separator)

(***************************************************************************)
(* CodeGenerator::visit_type.                                              *)
(***************************************************************************)
visit_type(self, input) ==
    CASE input.kind \in PrimitiveTypes -> Emitted(<<TypeDisplay(input.kind)>>)
      [] input.kind = "Identifier" ->
            IF input.name \in DOMAIN self.composite_mapping
            THEN Emitted(<<to_lowercase(input.name), ".", self.composite_mapping[input.name]>>)
            ELSE Halted
      [] input.kind = "Tuple" -> Halted
      [] input.kind = "Err" -> Halted

(***************************************************************************)
(* CodeGenerator::visit_type_with_visibility.                              *)
(***************************************************************************)
visit_type_with_visibility_always(self, input, visibility) ==
    LET type_string == visit_type(self, input)
    IN  IF type_string.halted
        THEN Halted
        ELSE Emitted(type_string.text
                     \o <<".", ModeDisplay(unwrap_or(visibility, "Private"))>>)

visit_type_with_visibility(self, input, visibility) ==
    LET type_string == visit_type(self, input)
    IN  IF type_string.halted
        THEN Halted
        ELSE IF input.kind = "Identifier"
             THEN type_string
             ELSE Emitted(type_string.text
                          \o <<".", ModeDisplay(unwrap_or(visibility, "Private"))>>)

(***************************************************************************)
(* CodeGenerator::visit_return_type: one type string per member of a       *)
(* tuple type, one for any other type.                                     *)
(***************************************************************************)
visit_return_type(self, input, visibility) ==
    LET types == IF input.kind = "Tuple" THEN input.types ELSE <<input>>
        strings == [i \in 1..Len(types) |->
                       visit_type_with_visibility(self, types[i], visibility)]
    IN  IF \E i \in 1..Len(types) : strings[i].halted
        THEN [halted |-> TRUE, types |-> <<>>]
        ELSE [halted |-> FALSE, types |-> [i \in 1..Len(types) |-> strings[i].text]]

(***************************************************************************)
(* CodeGenerator::visit_expression: an identifier is the operand recorded  *)
(* for it, a literal is itself, a tuple is its elements' operands joined   *)
(* by "\n"; any other expression emits its sub-operands' instructions,     *)
(* then one instruction into a fresh register, which is its operand.       *)
(***************************************************************************)
Opcode(op) ==
    CASE op = "Add" -> "add"
      [] op = "Eq" -> "is.eq"
      [] op = "Ternary" -> "ternary"
      [] op = "Call" -> "call"
      [] op = "And" -> "and"
      [] op = "Not" -> "not"

Register(n) == "r" \o ToString(n)

Instruction(opcode, operands, destination) ==
    <<"    ", opcode, " ">> \o Join(operands, " ") \o <<" into ", destination, ";\n">>

Failure(self) == [halted |-> TRUE, operand |-> <<>>, instructions |-> <<>>, self |-> self]

RECURSIVE visit_expression(_, _)
RECURSIVE visit_operands(_, _, _, _)

\* The operands of the expressions, left to right, and their instructions.
visit_operands(self, expressions, operands, instructions) ==
    IF expressions = <<>>
    THEN [halted |-> FALSE, operands |-> operands, instructions |-> instructions,
          self |-> self]
    ELSE LET first == visit_expression(self, Head(expressions))
         IN  IF first.halted
             THEN [halted |-> TRUE, operands |-> <<>>, instructions |-> <<>>, self |-> self]
             ELSE visit_operands(first.self, Tail(expressions),
                                 Append(operands, first.operand),
                                 instructions \o first.instructions)

visit_expression(self, input) ==
    CASE input.kind = "Identifier" ->
            IF input.name \in DOMAIN self.variable_mapping
            THEN [halted |-> FALSE, operand |-> self.variable_mapping[input.name],
                  instructions |-> <<>>, self |-> self]
            ELSE Failure(self)
      [] input.kind = "Literal" ->
            [halted |-> FALSE, operand |-> <<input.value>>, instructions |-> <<>>,
             self |-> self]
      [] input.kind = "Tuple" ->
            LET subs == visit_operands(self, input.elements, <<>>, <<>>)
            IN  IF subs.halted
                THEN Failure(self)
                ELSE [halted |-> FALSE, operand |-> Join(subs.operands, "\n"),
                      instructions |-> subs.instructions, self |-> subs.self]
      [] OTHER ->
            LET subs ==
                    visit_operands(self,
                        CASE input.kind = "Binary" -> <<input.left, input.right>>
                          [] input.kind = "Unary" -> <<input.receiver>>
                          [] input.kind = "Ternary" ->
                                <<input.condition, input.if_true, input.if_false>>
                          [] input.kind = "Call" -> input.arguments,
                        <<>>, <<>>)
                destination == Register(subs.self.next_register)
                operands == IF input.kind = "Call"
                            THEN <<<<input.function>>>> \o subs.operands
                            ELSE subs.operands
                opcode == Opcode(IF input.kind \in {"Binary", "Unary"}
                                 THEN input.op
                                 ELSE input.kind)
            IN  IF subs.halted
                THEN Failure(self)
                ELSE [halted |-> FALSE, operand |-> <<destination>>,
                      instructions |-> subs.instructions
                                       \o Instruction(opcode, operands, destination),
                      self |-> [subs.self EXCEPT !.next_register = @ + 1]]

(***************************************************************************)
(* CodeGenerator::visit_return: the instructions of the expression, then   *)
(* one output line per pair of the zip of the operand's pieces with the    *)
(* return type's strings.                                                  *)
(***************************************************************************)
Stopped(self) == [halted |-> TRUE, text |-> <<>>, self |-> self]

Zip(left, right) ==
    [i \in 1..(IF Len(left) < Len(right) THEN Len(left) ELSE Len(right)) |->
        <<left[i], right[i]>>]

OutputLine(operand, type_) ==
    <<"    output ">> \o operand \o <<" as ">> \o type_ \o <<";\n">>

visit_return(self, input) ==
    LET e == visit_expression(self, input.expression)
        types == visit_return_type(e.self, e.self.current_function.output_type, "Private")
        pairs == Zip(Split(e.operand, "\n"), types.types)
        instructions ==
            FlattenSeq([i \in 1..Len(pairs) |-> OutputLine(pairs[i][1], pairs[i][2])])
    IN  IF e.halted \/ types.halted
        THEN Stopped(self)
        ELSE [halted |-> FALSE, text |-> e.instructions \o instructions, self |-> e.self]

(***************************************************************************)
(* CodeGenerator::visit_increment, visit_decrement, visit_finalize: todo!() *)
(***************************************************************************)
visit_increment(self, input) == Stopped(self)

visit_decrement(self, input) == Stopped(self)

visit_finalize(self, input) == Stopped(self)

(***************************************************************************)
(* CodeGenerator::visit_assign.                                            *)
(***************************************************************************)
visit_assign(self, input) ==
    IF input.place.kind = "Identifier"
    THEN LET e == visit_expression(self, input.value)
         IN  IF e.halted
             THEN Stopped(self)
             ELSE [halted |-> FALSE, text |-> e.instructions,
                   self |-> [e.self EXCEPT !.variable_mapping =
                               [name \in DOMAIN @ \cup {input.place.name} |->
                                   IF name = input.place.name THEN e.operand ELSE @[name]]]]
    ELSE Stopped(self)

(***************************************************************************)
(* CodeGenerator::visit_console.  A console function is Assert(expression) *)
(* or AssertEq / AssertNeq(left, right).                                   *)
(***************************************************************************)
ConsoleStatement(console) == [kind |-> "Console", function |-> console]

Assert_(expression) == [variant |-> "Assert", expression |-> expression]

AssertEq(left, right) == [variant |-> "AssertEq", left |-> left, right |-> right]

AssertNeq(left, right) == [variant |-> "AssertNeq", left |-> left, right |-> right]

\* The closure generate_assert_instruction.
generate_assert_instruction_right_first(self, name, left, right) ==
    LET l == visit_expression(self, left)
        r == visit_expression(l.self, right)
    IN  IF l.halted \/ r.halted
        THEN Stopped(self)
        ELSE [halted |-> FALSE,
              text |-> r.instructions \o l.instructions
                       \o <<"    ", name, " ">> \o l.operand \o <<" ">> \o r.operand
                       \o <<";\n">>,
              self |-> r.self]

generate_assert_instruction(self, name, left, right) ==
    LET l == visit_expression(self, left)
        r == visit_expression(l.self, right)
    IN  IF l.halted \/ r.halted
        THEN Stopped(self)
        ELSE [halted |-> FALSE,
              text |-> l.instructions \o r.instructions
                       \o <<"    ", name, " ">> \o l.operand \o <<" ">> \o r.operand
                       \o <<";\n">>,
              self |-> r.self]

visit_console(self, input) ==
    CASE input.function.variant = "Assert" ->
            LET e == visit_expression(self, input.function.expression)
            IN  IF e.halted
                THEN Stopped(self)
                ELSE [halted |-> FALSE,
                      text |-> e.instructions
                               \o <<"    assert.eq ">> \o e.operand \o <<" true;\n">>,
                      self |-> e.self]
      [] input.function.variant = "AssertEq" ->
            generate_assert_instruction(self, "assert.eq", input.function.left,
                                        input.function.right)
      [] input.function.variant = "AssertNeq" ->
            generate_assert_instruction(self, "assert.neq", input.function.left,
                                        input.function.right)

(***************************************************************************)
(* CodeGenerator::visit_statement.                                         *)
(***************************************************************************)
visit_statement(self, input) ==
    CASE input.kind = "Assign" -> visit_assign(self, input)
      [] input.kind = "Console" -> visit_console(self, input)
      [] input.kind = "Decrement" -> visit_decrement(self, input)
      [] input.kind = "Finalize" -> visit_finalize(self, input)
      [] input.kind = "Increment" -> visit_increment(self, input)
      [] input.kind = "Return" -> visit_return(self, input)
      [] input.kind \in {"Conditional", "Definition", "Iteration"} -> Stopped(self)

(***************************************************************************)
(* The Static Single Assignment pass.  self is the StaticSingleAssigner:   *)
(* counter, rename_table (a stack of frames, the top one last), circuits   *)
(* (name -> composite type), is_lhs, and created, the log of the fresh     *)
(* names made so far with the counter each was made from.                  *)
(***************************************************************************)
\* SymbolTable::lookup_circuit: the members of the composites, in order.
lookup_circuit(name) ==
    CASE name = "Foo" -> [identifier |-> "Foo", members |-> <<"x", "y">>]
      [] name = "Bar" -> [identifier |-> "Bar", members |-> <<"x">>]

\* RenameTable::lookup: the binding of the topmost frame that has one.
RECURSIVE lookup(_, _)
lookup(rename_table, name) ==
    IF rename_table = <<>>
    THEN [found |-> FALSE, name |-> name]
    ELSE IF name \in DOMAIN Last(rename_table)
         THEN [found |-> TRUE, name |-> Last(rename_table)[name]]
         ELSE lookup(SubSeq(rename_table, 1, Len(rename_table) - 1), name)

\* RenameTable::update: the binding is written to the top frame.
update(rename_table, original, new_name) ==
    [rename_table EXCEPT ![Len(rename_table)] =
        [name \in DOMAIN @ \cup {original} |-> IF name = original THEN new_name ELSE @[name]]]

\* StaticSingleAssigner::unique_symbol: <arg>$<counter>; the counter is bumped.
fresh_symbol(self, arg) ==
    [name |-> unique_symbol(arg, self.counter),
     self |-> [self EXCEPT !.counter = @ + 1,
                           !.created = Append(@, [name |-> unique_symbol(arg, self.counter),
                                                  prefix |-> arg,
                                                  counter |-> self.counter])]]

\* StaticSingleAssigner::unique_simple_assign_statement.
unique_simple_assign_statement(self, expr) ==
    LET fresh == fresh_symbol(self, "$var")
    IN  [place |-> Identifier(fresh.name),
         statement |-> AssignStatement(Identifier(fresh.name), expr),
         self |-> fresh.self]

Consumed(expression, statements, self) ==
    [halted |-> FALSE, expression |-> expression, statements |-> statements, self |-> self]

Panicked(self) ==
    [halted |-> TRUE, expression |-> NoExpression, statements |-> <<>>, self |-> self]

(***************************************************************************)
(* StaticSingleAssigner::consume_identifier.                               *)
(***************************************************************************)
consume_identifier_reusing_name(self, identifier) ==
    IF self.is_lhs
    THEN Consumed(identifier, <<>>,
                  [self EXCEPT !.rename_table = update(@, identifier.name, identifier.name)])
    ELSE Consumed(Identifier(lookup(self.rename_table, identifier.name).name), <<>>, self)

consume_identifier_without_update(self, identifier) ==
    IF self.is_lhs
    THEN Consumed(Identifier(fresh_symbol(self, identifier.name).name), <<>>,
                  fresh_symbol(self, identifier.name).self)
    ELSE Consumed(Identifier(lookup(self.rename_table, identifier.name).name), <<>>, self)

consume_identifier(self, identifier) ==
    IF self.is_lhs
    THEN LET fresh == fresh_symbol(self, identifier.name)
         IN  Consumed(Identifier(fresh.name), <<>>,
                      [fresh.self EXCEPT
                          !.rename_table = update(@, identifier.name, fresh.name)])
    ELSE Consumed(Identifier(lookup(self.rename_table, identifier.name).name), <<>>, self)

(***************************************************************************)
(* StaticSingleAssigner::consume_literal.                                  *)
(***************************************************************************)
consume_literal(self, input) == Consumed(input, <<>>, self)

RECURSIVE consume_expression(_, _)
RECURSIVE consume_each(_, _, _, _)
RECURSIVE consume_members(_, _, _, _)
RECURSIVE consume_ternary(_, _)
RECURSIVE consume_tuple_ternaries(_, _, _, _, _, _)
RECURSIVE consume_member_ternaries(_, _, _, _, _, _, _)

\* The end of a consumer that binds its result: the assignment made by
\* unique_simple_assign_statement is pushed after the statements gathered so
\* far and its place is returned.
Bound(statements, assign) ==
    Consumed(assign.place, Append(statements, assign.statement), assign.self)

\* The closure of the `.map(..)` over arguments or elements: each expression
\* is consumed in turn and its statements are appended.
each_next(self, expressions, acc, statements, first) ==
    IF first.halted
    THEN [halted |-> TRUE, expressions |-> <<>>, statements |-> <<>>, self |-> self]
    ELSE consume_each(first.self, Tail(expressions), Append(acc, first.expression),
                      statements \o first.statements)

consume_each(self, expressions, acc, statements) ==
    IF expressions = <<>>
    THEN [halted |-> FALSE, expressions |-> acc, statements |-> statements,
          self |-> self]
    ELSE each_next(self, expressions, acc, statements,
                   consume_expression(self, Head(expressions)))

(***************************************************************************)
(* StaticSingleAssigner::consume_access.                                   *)
(***************************************************************************)
access_function(input, args) ==
    [halted |-> args.halted, expr |-> [input EXCEPT !.args = args.expressions],
     statements |-> args.statements, self |-> args.self]

access_member(input, e) ==
    [halted |-> e.halted, expr |-> [input EXCEPT !.inner = e.expression],
     statements |-> e.statements, self |-> e.self]

access_tuple(input, e) ==
    [halted |-> e.halted, expr |-> [input EXCEPT !.tuple = e.expression],
     statements |-> e.statements, self |-> e.self]

\* The match on the variant of the access: its inner expressions consumed.
access_inner(self, input) ==
    CASE input.kind = "AssociatedFunction" ->
            access_function(input, consume_each(self, input.args, <<>>, <<>>))
      [] input.kind = "MemberAccess" ->
            access_member(input, consume_expression(self, input.inner))
      [] input.kind = "TupleAccess" ->
            access_tuple(input, consume_expression(self, input.tuple))
      [] OTHER ->
            [halted |-> FALSE, expr |-> input, statements |-> <<>>, self |-> self]

access_bind(self, inner) ==
    IF inner.halted
    THEN Panicked(self)
    ELSE Bound(inner.statements, unique_simple_assign_statement(inner.self, inner.expr))

consume_access(self, input) == access_bind(self, access_inner(self, input))

(***************************************************************************)
(* StaticSingleAssigner::consume_binary: left, then right, then the        *)
(* assignment of the binary expression over the two consumed operands.     *)
(***************************************************************************)
binary_bind_right_first(self, input, left, right) ==
    IF right.halted
    THEN Panicked(self)
    ELSE Bound(right.statements \o left.statements,
               unique_simple_assign_statement(right.self,
                   BinaryExpression(input.op, left.expression, right.expression)))

binary_bind(self, input, left, right) ==
    IF right.halted
    THEN Panicked(self)
    ELSE Bound(left.statements \o right.statements,
               unique_simple_assign_statement(right.self,
                   BinaryExpression(input.op, left.expression, right.expression)))

binary_right(self, input, left) ==
    IF left.halted
    THEN Panicked(self)
    ELSE binary_bind(self, input, left, consume_expression(left.self, input.right))

consume_binary(self, input) ==
    binary_right(self, input, consume_expression(self, input.left))

(***************************************************************************)
(* StaticSingleAssigner::consume_call.                                     *)
(***************************************************************************)
call_bind(self, input, arguments) ==
    IF arguments.halted
    THEN Panicked(self)
    ELSE Bound(arguments.statements,
               unique_simple_assign_statement(arguments.self,
                   CallExpression(input.function, arguments.expressions)))

consume_call(self, input) ==
    call_bind(self, input, consume_each(self, input.arguments, <<>>, <<>>))

(***************************************************************************)
(* StaticSingleAssigner::consume_circuit_init: a member without an         *)
(* expression stands for the identifier of its own name; the composite is  *)
(* bound to a fresh name, which is recorded in self.circuits.              *)
(***************************************************************************)
members_next(self, members, acc, statements, e) ==
    IF e.halted
    THEN [halted |-> TRUE, members |-> <<>>, statements |-> <<>>, self |-> self]
    ELSE consume_members(e.self, Tail(members),
             Append(acc, CircuitVariableInitializer(Head(members).identifier,
                                                    e.expression)),
             statements \o e.statements)

consume_members(self, members, acc, statements) ==
    IF members = <<>>
    THEN [halted |-> FALSE, members |-> acc, statements |-> statements, self |-> self]
    ELSE members_next(self, members, acc, statements,
             IF Head(members).expression = NoExpression
             THEN consume_identifier(self, Identifier(Head(members).identifier))
             ELSE consume_expression(self, Head(members).expression))

circuit_record(input, members, assign) ==
    Consumed(assign.place, Append(members.statements, assign.statement),
             [assign.self EXCEPT !.circuits =
                 [name \in DOMAIN @ \cup {assign.place.name} |->
                     IF name = assign.place.name THEN input.name ELSE @[name]]])

circuit_bind(self, input, members) ==
    IF members.halted
    THEN Panicked(self)
    ELSE circuit_record(input, members,
             unique_simple_assign_statement(members.self,
                 CircuitExpression(input.name, members.members)))

consume_circuit_init(self, input) ==
    circuit_bind(self, input, consume_members(self, input.members, <<>>, <<>>))

(***************************************************************************)
(* StaticSingleAssigner::consume_tuple: the elements are consumed; the     *)
(* tuple itself is returned, bound to no name.                             *)
(***************************************************************************)
tuple_of(self, statements, elements) ==
    IF elements.halted
    THEN Panicked(self)
    ELSE Consumed(TupleExpression(elements.expressions),
                  statements \o elements.statements, elements.self)

consume_tuple(self, input) ==
    tuple_of(self, <<>>, consume_each(self, input.elements, <<>>, <<>>))

(***************************************************************************)
(* StaticSingleAssigner::consume_unary.                                    *)
(***************************************************************************)
unary_bind(self, input, receiver) ==
    IF receiver.halted
    THEN Panicked(self)
    ELSE Bound(receiver.statements,
               unique_simple_assign_statement(receiver.self,
                   UnaryExpression(input.op, receiver.expression)))

consume_unary(self, input) ==
    unary_bind(self, input, consume_expression(self, input.receiver))

(***************************************************************************)
(* StaticSingleAssigner::consume_ternary.                                  *)
(***************************************************************************)
\* first.elements zipped (zip_eq) with second.elements: one ternary per pair;
\* zip_eq panics when one side ends before the other.
tuple_ternaries_next(cond, first, second, elements, statements, self, t) ==
    IF t.halted
    THEN [halted |-> TRUE, expressions |-> <<>>, statements |-> <<>>, self |-> self]
    ELSE consume_tuple_ternaries(t.self, cond, Tail(first), Tail(second),
                                 Append(elements, t.expression),
                                 statements \o t.statements)

consume_tuple_ternaries_truncating(self, cond, first, second, elements, statements) ==
    IF first = <<>> \/ second = <<>>
    THEN [halted |-> FALSE, expressions |-> elements, statements |-> statements,
          self |-> self]
    ELSE tuple_ternaries_next(cond, first, second, elements, statements, self,
             consume_ternary(self, TernaryExpression(cond, Head(first), Head(second))))

consume_tuple_ternaries(self, cond, first, second, elements, statements) ==
    IF first = <<>> /\ second = <<>>
    THEN [halted |-> FALSE, expressions |-> elements, statements |-> statements,
          self |-> self]
    ELSE IF first = <<>> \/ second = <<>>
         THEN [halted |-> TRUE, expressions |-> <<>>, statements |-> <<>>, self |-> self]
         ELSE tuple_ternaries_next(cond, first, second, elements, statements, self,
                  consume_ternary(self,
                      TernaryExpression(cond, Head(first), Head(second))))

\* One ternary cond ? first.m : second.m per member m of the composite.
member_ternaries_next(cond, first, second, ids, members, statements, self, t) ==
    IF t.halted
    THEN [halted |-> TRUE, members |-> <<>>, statements |-> <<>>, self |-> self]
    ELSE consume_member_ternaries(t.self, cond, first, second, Tail(ids),
             Append(members, CircuitVariableInitializer(Head(ids), t.expression)),
             statements \o t.statements)

consume_member_ternaries(self, cond, first, second, ids, members, statements) ==
    IF ids = <<>>
    THEN [halted |-> FALSE, members |-> members, statements |-> statements, self |-> self]
    ELSE member_ternaries_next(cond, first, second, ids, members, statements, self,
             consume_ternary(self,
                 TernaryExpression(cond, MemberAccess(first, Head(ids)),
                                   MemberAccess(second, Head(ids)))))

\* The composite case, last step: the initializer over the member ternaries
\* has been consumed as a composite initializer.
ternary_circuit_init(self, statements, members, init) ==
    IF init.halted
    THEN Panicked(self)
    ELSE Consumed(init.expression, statements \o members.statements \o init.statements,
                  init.self)

\* The composite case: both composites are looked up and asserted equal.
ternary_circuit(self, statements, first_circuit, second_circuit, members) ==
    IF first_circuit # second_circuit \/ members.halted
    THEN Panicked(self)
    ELSE ternary_circuit_init(self, statements, members,
             consume_circuit_init(members.self,
                 CircuitExpression(first_circuit.identifier, members.members)))

\* The match on the two consumed branches.
ternary_match(self, self1, cond, first, second, statements) ==
    IF first.kind = "Tuple" /\ second.kind = "Tuple"
    THEN tuple_of(self, statements,
                  consume_tuple_ternaries(self1, cond, first.elements, second.elements,
                                          <<>>, <<>>))
    ELSE IF /\ first.kind = "Identifier" /\ second.kind = "Identifier"
            /\ first.name \in DOMAIN self1.circuits
            /\ second.name \in DOMAIN self1.circuits
    THEN ternary_circuit(self, statements,
                         lookup_circuit(self1.circuits[first.name]),
                         lookup_circuit(self1.circuits[second.name]),
                         consume_member_ternaries(self1, cond, first, second,
                             lookup_circuit(self1.circuits[first.name]).members,
                             <<>>, <<>>))
    ELSE Bound(statements,
               unique_simple_assign_statement(self1,
                   TernaryExpression(cond, first, second)))

ternary_if_false(self, cond, if_true, if_false) ==
    IF if_false.halted
    THEN Panicked(self)
    ELSE ternary_match(self, if_false.self, cond.expression, if_true.expression,
                       if_false.expression,
                       cond.statements \o if_true.statements \o if_false.statements)

ternary_if_true(self, input, cond, if_true) ==
    IF if_true.halted
    THEN Panicked(self)
    ELSE ternary_if_false(self, cond, if_true,
                          consume_expression(if_true.self, input.if_false))

ternary_condition(self, input, cond) ==
    IF cond.halted
    THEN Panicked(self)
    ELSE ternary_if_true(self, input, cond, consume_expression(cond.self, input.if_true))

consume_ternary(self, input) ==
    ternary_condition(self, input, consume_expression(self, input.condition))

(***************************************************************************)
(* ExpressionConsumer::consume_expression: the dispatch on the variant.    *)
(***************************************************************************)
consume_expression(self, input) ==
    CASE input.kind \in {"MemberAccess", "TupleAccess", "AssociatedFunction",
                         "AssociatedConstant"} -> consume_access(self, input)
      [] input.kind = "Binary" -> consume_binary(self, input)
      [] input.kind = "Call" -> consume_call(self, input)
      [] input.kind = "Circuit" -> consume_circuit_init(self, input)
      [] input.kind = "Identifier" -> consume_identifier(self, input)
      [] input.kind = "Literal" -> consume_literal(self, input)
      [] input.kind = "Ternary" -> consume_ternary(self, input)
      [] input.kind = "Tuple" -> consume_tuple(self, input)
      [] input.kind = "Unary" -> consume_unary(self, input)
      [] OTHER -> Panicked(self)

(***************************************************************************)
(* The flattening pass as a state machine: reconstruct_program hands the   *)
(* functions of the program to reconstruct_function one after the other.   *)
(***************************************************************************)
NoStatement == [none |-> TRUE]

EmptyFrame == [name \in {} |-> ""]

FlattenInit ==
    /\ flattener = [returns |-> <<>>, finalizes |-> <<>>, counter |-> 0]
    /\ function = NoFunction
    /\ flattened = NoFunction

CodegenIdle ==
    /\ generator = [variable_mapping |-> <<>>, composite_mapping |-> <<>>,
                    current_function |-> NoFunction, next_register |-> 0]
    /\ visited = NoStatement
    /\ emitted = Emitted(<<>>)

ReconstructFunction ==
    /\ flattened = NoFunction
    /\ flattener.counter <= MaxCounter
    /\ \E fn \in Functions :
          LET r == reconstruct_function(flattener, fn)
          IN  /\ function' = fn
              /\ flattened' = r.function
              /\ flattener' = r.self
    /\ UNCHANGED <<codegen_vars, ssa_vars, package_vars>>

NextFunction ==
    /\ flattened # NoFunction
    /\ function' = NoFunction
    /\ flattened' = NoFunction
    /\ UNCHANGED <<flattener, codegen_vars, ssa_vars, package_vars>>

SsaIdle ==
    /\ assigner = [counter |-> 0, rename_table |-> <<EmptyFrame>>, circuits |-> EmptyFrame,
                   is_lhs |-> FALSE, created |-> <<>>]
    /\ consumed = NoStatement
    /\ produced = [halted |-> FALSE, expression |-> NoExpression, statements |-> <<>>]
    /\ ssa_block = <<>>

NoCall == [none |-> TRUE]

PackageIdle ==
    /\ disk = [dirs |-> {}, files |-> <<>>]
    /\ call = NoCall

Init == FlattenInit /\ CodegenIdle /\ SsaIdle /\ PackageIdle

Next == ReconstructFunction \/ NextFunction

Spec == Init /\ [][Next]_vars

(***************************************************************************)
(* The code generator as a state machine.  The function being emitted has  *)
(* the inputs a: u32, b: boolean and s: Token, held in r0, r1 and r2, and  *)
(* one of the return types below; the statements handed to it are in SSA   *)
(* form (each name assigned once) and type-correct: the returned           *)
(* expression has the function's return type, and so have t (the result of *)
(* a call) and u (bound to the expression built from the inputs).          *)
(***************************************************************************)
U32 == PrimitiveType("U32")

Boolean == PrimitiveType("Boolean")

Token == CompositeType("Token")

OutputTypes ==
    {U32, Boolean, Token}
    \cup {TupleType(ts) : ts \in UNION {[1..k -> {U32, Boolean}] : k \in 2..MaxTupleSize}}

InputOf(type) ==
    CASE type = U32 -> Identifier("a")
      [] type = Boolean -> Identifier("b")
      [] type = Token -> Identifier("s")

CanonicalExpression(type) ==
    IF type.kind = "Tuple"
    THEN TupleExpression([i \in 1..Len(type.types) |-> InputOf(type.types[i])])
    ELSE InputOf(type)

Assignments(type) ==
    {AssignStatement(Identifier("t"), CallExpression("twin", <<Identifier("a")>>)),
     AssignStatement(Identifier("u"), CanonicalExpression(type)),
     AssignStatement(Identifier("n"),
                     BinaryExpression("Add", Identifier("a"), Literal("1u32")))}

Returnable(self) ==
    LET type == self.current_function.output_type
    IN  {CanonicalExpression(type)}
        \cup {Identifier(name) : name \in {"t", "u"} \cap DOMAIN self.variable_mapping}
        \cup (IF type = U32
              THEN {Literal("1u32")}
                   \cup {Identifier(name) : name \in {"n"} \cap DOMAIN self.variable_mapping}
              ELSE {})

Atoms == {Identifier("a"), Identifier("b"), Literal("1u32")}

TypeQueries ==
    {PrimitiveType(variant) : variant \in PrimitiveTypes}
    \cup {CompositeType(name) : name \in {"Token", "BoardState", "point", "Ghost"}}
    \cup {TupleType(<<U32, Boolean>>), ErrType}

Visibilities == {NoMode, "Private", "Public", "Const"}

FlattenIdle == FlattenInit

CodegenInit ==
    /\ FlattenIdle
    /\ SsaIdle
    /\ PackageIdle
    /\ \E type \in OutputTypes :
          generator =
              [variable_mapping |-> [name \in {"a", "b", "s"} |->
                                        CASE name = "a" -> <<"r0">>
                                          [] name = "b" -> <<"r1">>
                                          [] name = "s" -> <<"r2">>],
               composite_mapping |-> [name \in {"Token", "BoardState", "point"} |->
                                         IF name = "Token" THEN "record" ELSE "circuit"],
               current_function |-> [output_type |-> type],
               next_register |-> 3]
    /\ visited = NoStatement
    /\ emitted = Emitted(<<>>)

Visit(input) ==
    LET r == visit_statement(generator, input)
    IN  /\ ~emitted.halted
        /\ visited' = input
        /\ emitted' = [halted |-> r.halted, text |-> r.text]
        /\ generator' = r.self
        /\ UNCHANGED <<flatten_vars, ssa_vars, package_vars>>

VisitAssign ==
    \E input \in Assignments(generator.current_function.output_type) :
        /\ input.place.name \notin DOMAIN generator.variable_mapping
        /\ Visit(input)

VisitReturn ==
    \E expression \in Returnable(generator) : Visit(ReturnStatement(expression))

VisitIncrement ==
    \E index \in Atoms : Visit(IncrementStatement("account", index, Literal("1u32")))

VisitDecrement ==
    \E index \in Atoms : Visit(DecrementStatement("account", index, Literal("1u32")))

VisitFinalize ==
    \E arguments \in SeqsUpTo(Atoms, 2) : Visit(FinalizeStatement(arguments))

\* The operands of console statements: atoms and expressions over them.
Asserted ==
    {Identifier("a"), Literal("1u32"),
     BinaryExpression("Add", Identifier("a"), Literal("1u32")),
     BinaryExpression("Eq", Identifier("a"), Identifier("b"))}

VisitConsole ==
    /\ generator.next_register <= MaxRegister
    /\ \/ \E e \in Asserted : Visit(ConsoleStatement(Assert_(e)))
       \/ \E left, right \in Asserted :
             \/ Visit(ConsoleStatement(AssertEq(left, right)))
             \/ Visit(ConsoleStatement(AssertNeq(left, right)))

VisitTypeWithVisibility ==
    \E type \in TypeQueries, visibility \in Visibilities :
        /\ ~emitted.halted
        /\ visited' = [kind |-> "Type", type |-> type, visibility |-> visibility]
        /\ emitted' = visit_type_with_visibility(generator, type, visibility)
        /\ UNCHANGED <<generator, flatten_vars, ssa_vars, package_vars>>

CodegenNext ==
    \/ VisitAssign
    \/ VisitReturn
    \/ VisitIncrement
    \/ VisitDecrement
    \/ VisitFinalize
    \/ VisitConsole
    \/ VisitTypeWithVisibility

CodegenSpec == CodegenInit /\ [][CodegenNext]_vars

(***************************************************************************)
(* StaticSingleAssigner::consume_assign: the value is consumed first, then *)
(* the place with is_lhs set, and one assignment of the atomic value to    *)
(* the new name is emitted.                                                *)
(***************************************************************************)
assign_place(self, value, place) ==
    IF place.halted
    THEN [halted |-> TRUE, statements |-> <<>>, self |-> self]
    ELSE [halted |-> FALSE,
          statements |-> Append(value.statements,
                                AssignStatement(place.expression, value.expression)),
          self |-> [place.self EXCEPT !.is_lhs = FALSE]]

assign_value(self, assign, value) ==
    IF value.halted
    THEN [halted |-> TRUE, statements |-> <<>>, self |-> self]
    ELSE assign_place(self, value,
                      consume_expression([value.self EXCEPT !.is_lhs = TRUE],
                                         assign.place))

consume_assign(self, assign) ==
    assign_value(self, assign, consume_expression(self, assign.value))

(***************************************************************************)
(* The SSA pass as a state machine: within one function, expressions and   *)
(* assignments are consumed one after the other.  a, b, c, s and t are     *)
(* inputs of the function (c a boolean, s a Foo, t a pair); mk is a        *)
(* function that returns a Foo.                                            *)
(***************************************************************************)
Pair == TupleExpression(<<Identifier("a"), Identifier("b")>>)

Riap == TupleExpression(<<Identifier("b"), Literal("1u8")>>)

Sum == BinaryExpression("Add", Identifier("a"), Identifier("b"))

Inverse == UnaryExpression("Negate", Identifier("b"))

FooInit(x, y) ==
    CircuitExpression("Foo", <<CircuitVariableInitializer("x", x),
                               CircuitVariableInitializer("y", y)>>)

Expressions ==
    {Identifier("a"), Literal("1u8"), Sum,
     BinaryExpression("Add", BinaryExpression("Add", Identifier("a"), Literal("1u8")),
                      Identifier("b")),
     UnaryExpression("Not", Identifier("c")),
     UnaryExpression("Negate", Sum),
     CallExpression("f", <<Identifier("a"), Identifier("b")>>),
     CallExpression("f", <<Sum>>),
     CallExpression("f", <<Pair>>),
     Pair,
     TupleExpression(<<Sum, Literal("1u8")>>),
     FooInit(Identifier("a"), Identifier("b")),
     FooInit(NoExpression, Sum),
     CircuitExpression("Bar", <<CircuitVariableInitializer("x", Pair)>>),
     MemberAccess(Identifier("s"), "x"),
     TupleAccess(Identifier("t"), 0),
     TupleAccess(Pair, 0),
     TupleAccess(CallExpression("g", <<Identifier("a")>>), 1),
     AssociatedFunction("BHP256", "hash", <<Sum>>),
     AssociatedConstant("group", "GEN"),
     TernaryExpression(Identifier("c"), Identifier("a"), Sum),
     TernaryExpression(Identifier("c"), Pair, Riap),
     TernaryExpression(Identifier("c"), Pair, Identifier("t")),
     TernaryExpression(Identifier("c"), FooInit(Identifier("a"), Identifier("b")),
                       FooInit(Identifier("b"), Identifier("a"))),
     TernaryExpression(Identifier("c"), CallExpression("mk", <<Identifier("a")>>),
                       CallExpression("mk", <<Identifier("b")>>)),
     TernaryExpression(Identifier("c"), Identifier("s"),
                       FooInit(Identifier("a"), Identifier("b"))),
     TernaryExpression(Identifier("c"), Pair, TupleExpression(<<Identifier("b")>>)),
     TernaryExpression(Identifier("c"), TupleExpression(<<Pair, Identifier("a")>>),
                       TupleExpression(<<Riap, Identifier("b")>>)),
     TernaryExpression(Identifier("c"),
                       TupleExpression(<<FooInit(Identifier("a"), Identifier("b")),
                                         Identifier("a")>>),
                       TupleExpression(<<FooInit(Identifier("b"), Identifier("a")),
                                         Identifier("b")>>)),
     BinaryExpression("Mul", Sum, Inverse),
     TernaryExpression(UnaryExpression("Not", Identifier("c")), Sum,
                       CallExpression("f", <<Inverse>>)),
     CallExpression("f", <<Sum, Inverse>>),
     FooInit(Sum, Inverse)}

AssignedValues == {Literal("1u8"), Sum, Pair}

AssignedPlaces == {Identifier("a"), Identifier("b")}

SsaInit == FlattenIdle /\ CodegenIdle /\ SsaIdle /\ PackageIdle

Produce(input, expression, r) ==
    /\ consumed' = input
    /\ produced' = [halted |-> r.halted, expression |-> expression,
                    statements |-> r.statements]
    /\ assigner' = r.self
    /\ ssa_block' = ssa_block \o r.statements

ProduceExpression(input, r) == Produce(input, r.expression, r)

ConsumeExpression ==
    /\ ~produced.halted
    /\ Len(assigner.created) <= MaxCreated
    /\ \E input \in Expressions :
          ProduceExpression(input, consume_expression(assigner, input))
    /\ UNCHANGED <<flatten_vars, codegen_vars, package_vars>>

ConsumeAssign ==
    /\ ~produced.halted
    /\ Len(assigner.created) <= MaxCreated
    /\ \E place \in AssignedPlaces, value \in AssignedValues :
          Produce(AssignStatement(place, value), NoExpression,
                  consume_assign(assigner, AssignStatement(place, value)))
    /\ UNCHANGED <<flatten_vars, codegen_vars, package_vars>>

SsaNext == ConsumeExpression \/ ConsumeAssign

SsaSpec == SsaInit /\ [][SsaNext]_vars

(***************************************************************************)
(* Statement consumption of the SSA pass.  path is the sequence of the     *)
(* conditions enclosing the statement (a condition or its negation), the   *)
(* empty sequence at the top level of a function.                          *)
(***************************************************************************)
ConditionalStatement(condition, then, otherwise) ==
    [kind |-> "Conditional", condition |-> condition, then |-> then,
     otherwise |-> otherwise]

CompoundAssignStatement(place, operation, value) ==
    [kind |-> "Assign", operation |-> operation, place |-> place, value |-> value]

\* x += e is lowered to x = x + e.
lower_compound(assign) ==
    IF "operation" \in DOMAIN assign
    THEN AssignStatement(assign.place,
                         BinaryExpression(assign.operation, assign.place, assign.value))
    ELSE assign

\* The conjunction of the conditions along the path, true at the top level.
RECURSIVE path_guard(_)
path_guard(path) ==
    IF path = <<>>
    THEN Literal("true")
    ELSE IF Len(path) = 1
         THEN path[1]
         ELSE BinaryExpression("And", path_guard(SubSeq(path, 1, Len(path) - 1)),
                               Last(path))

NotConsumed(self) == [halted |-> TRUE, statements |-> <<>>, self |-> self]

\* Return: the payload and the path guard are consumed into atomics and
\* recorded as the pair (guard, payload).
return_record(self, payload, guard) ==
    IF guard.halted
    THEN NotConsumed(self)
    ELSE [halted |-> FALSE,
          statements |-> payload.statements \o guard.statements
                         \o <<GuardedReturn(guard.expression, payload.expression)>>,
          self |-> guard.self]

return_guard(self, path, payload) ==
    IF payload.halted
    THEN NotConsumed(self)
    ELSE return_record(self, payload, consume_expression(payload.self, path_guard(path)))

consume_return(self, input, path) ==
    return_guard(self, path, consume_expression(self, input.expression))

\* The binding of x at the end of a branch whose popped frame is frame.
BranchBinding(self, frame, x) ==
    IF x \in DOMAIN frame THEN frame[x] ELSE lookup(self.rename_table, x).name

\* One x' = c ? xt : xf for each name rewritten in a branch.
RECURSIVE merge_frames(_, _, _, _, _, _)

merge_next(self, c, then_frame, else_frame, names, acc, phi) ==
    IF phi.halted
    THEN NotConsumed(self)
    ELSE merge_frames(phi.self, c, then_frame, else_frame, names, acc \o phi.statements)

merge_name(self, c, then_frame, else_frame, names, acc, x) ==
    merge_next(self, c, then_frame, else_frame, names \ {x}, acc,
               consume_assign(self,
                   AssignStatement(Identifier(x),
                       TernaryExpression(c,
                           Identifier(BranchBinding(self, then_frame, x)),
                           Identifier(BranchBinding(self, else_frame, x))))))

merge_frames(self, c, then_frame, else_frame, names, acc) ==
    IF names = {}
    THEN [halted |-> FALSE, statements |-> acc, self |-> self]
    ELSE merge_name(self, c, then_frame, else_frame, names, acc,
                    CHOOSE name \in names : TRUE)

RECURSIVE consume_statement(_, _, _)
RECURSIVE consume_statements(_, _, _, _)

statements_next(self, block, path, acc, first) ==
    IF first.halted
    THEN NotConsumed(self)
    ELSE consume_statements(first.self, Tail(block), path, acc \o first.statements)

consume_statements(self, block, path, acc) ==
    IF block = <<>>
    THEN [halted |-> FALSE, statements |-> acc, self |-> self]
    ELSE statements_next(self, block, path, acc,
                         consume_statement(self, Head(block), path))

\* Block: a frame is pushed, the statements are consumed in order, the
\* frame is popped (and handed to the caller).
block_pop(body) ==
    [halted |-> body.halted,
     statements |-> body.statements,
     frame |-> Last(body.self.rename_table),
     self |-> [body.self EXCEPT !.rename_table = SubSeq(@, 1, Len(@) - 1)]]

consume_block(self, block, path) ==
    block_pop(consume_statements([self EXCEPT !.rename_table = Append(@, EmptyFrame)],
                                 block, path, <<>>))

\* Conditional: the guard, the then branch, the else branch, then the
\* assignments that select between the bindings of the two branches.
conditional_merged(self, c, then_, else_, phis) ==
    IF phis.halted
    THEN NotConsumed(self)
    ELSE [halted |-> FALSE,
          statements |-> c.statements \o then_.statements \o else_.statements
                         \o phis.statements,
          self |-> phis.self]

conditional_else(self, c, then_, else_) ==
    IF else_.halted
    THEN NotConsumed(self)
    ELSE conditional_merged(self, c, then_, else_,
             merge_frames(else_.self, c.expression, then_.frame, else_.frame,
                          DOMAIN then_.frame \cup DOMAIN else_.frame, <<>>))

conditional_then(self, input, path, c, then_) ==
    IF then_.halted
    THEN NotConsumed(self)
    ELSE conditional_else(self, c, then_,
             consume_block(then_.self, input.otherwise,
                           Append(path, UnaryExpression("Not", c.expression))))

conditional_guard(self, input, path, c) ==
    IF c.halted
    THEN NotConsumed(self)
    ELSE conditional_then(self, input, path, c,
             consume_block(c.self, input.then, Append(path, c.expression)))

consume_conditional(self, input, path) ==
    conditional_guard(self, input, path, consume_expression(self, input.condition))

consume_statement(self, input, path) ==
    CASE input.kind = "Assign" -> consume_assign(self, lower_compound(input))
      [] input.kind = "Conditional" -> consume_conditional(self, input, path)
      [] input.kind = "Return" -> consume_return(self, input, path)
      [] OTHER -> NotConsumed(self)

\* The body of a function is consumed as a block.
function_body(fn, body) ==
    [halted |-> body.halted, self |-> body.self,
     function |-> [fn EXCEPT !.block = body.statements]]

consume_function(self, fn) == function_body(fn, consume_block(self, fn.block, <<>>))

(***************************************************************************)
(* CodeGenerator::visit_block: the instructions of the statements, in      *)
(* order, joined with nothing in between.                                  *)
(***************************************************************************)
RECURSIVE visit_block(_, _)
visit_block(self, block) ==
    IF block = <<>>
    THEN [halted |-> FALSE, text |-> <<>>, self |-> self]
    ELSE LET first == visit_statement(self, Head(block))
             rest == visit_block(first.self, Tail(block))
         IN  IF first.halted \/ rest.halted
             THEN Stopped(self)
             ELSE [halted |-> FALSE, text |-> first.text \o rest.text,
                   self |-> rest.self]

\* The body of a function: the i-th input is held in register r<i-1>.
visit_function(self, fn) ==
    visit_block([self EXCEPT
                    !.variable_mapping =
                        [name \in Range(fn.input) |->
                            <<Register((CHOOSE i \in 1..Len(fn.input) :
                                            fn.input[i] = name) - 1)>>],
                    !.next_register = Len(fn.input),
                    !.current_function = fn],
                fn.block)

(***************************************************************************)
(* The passes in sequence on one function: SSA, then flattening (which     *)
(* goes on numbering where SSA stopped), then code generation.  The        *)
(* functions are f(flag: u8, v: u8) -> u8 with a conditional whose         *)
(* branches add to v and may return it, followed by return v.              *)
(***************************************************************************)
U8 == PrimitiveType("U8")

Increments == {Literal("1u8"), Literal("2u8"), Literal("3u8")}

Conditions ==
    {BinaryExpression("Eq", Identifier("flag"), Literal("0u8")),
     BinaryExpression("Eq", Identifier("flag"), Identifier("v"))}

Branch(increment, returns) ==
    <<CompoundAssignStatement(Identifier("v"), "Add", increment)>>
        \o (IF returns THEN <<ReturnStatement(Identifier("v"))>> ELSE <<>>)

Branches == {Branch(k, r) : k \in Increments, r \in BOOLEAN}

Program(condition, then, otherwise) ==
    [name |-> "f", input |-> <<"flag", "v">>, output_type |-> U8,
     finalize |-> NoFinalize,
     block |-> <<ConditionalStatement(condition, then, otherwise),
                 ReturnStatement(Identifier("v"))>>]

Programs ==
    {Program(c, t, e) : c \in Conditions, t \in Branches, e \in Branches \cup {<<>>}}

Consume(fn, r) ==
    /\ function' = fn
    /\ assigner' = r.self
    /\ ssa_block' = r.function.block
    /\ produced' = [produced EXCEPT !.halted = r.halted]

ConsumeFunction ==
    /\ function = NoFunction
    /\ \E fn \in Programs : Consume(fn, consume_function(assigner, fn))
    /\ UNCHANGED <<flattener, flattened, consumed, codegen_vars, package_vars>>

FlattenFunction ==
    /\ function # NoFunction
    /\ flattened = NoFunction
    /\ ~produced.halted
    /\ LET r == reconstruct_function([flattener EXCEPT !.counter = assigner.counter],
                                     [function EXCEPT !.block = ssa_block])
       IN  /\ flattened' = r.function
           /\ flattener' = r.self
    /\ UNCHANGED <<function, codegen_vars, ssa_vars, package_vars>>

GenerateFunction ==
    /\ flattened # NoFunction
    /\ visited = NoStatement
    /\ LET r == visit_function(generator, flattened)
       IN  /\ visited' = [kind |-> "Function", name |-> flattened.name]
           /\ emitted' = [halted |-> r.halted, text |-> r.text]
           /\ generator' = r.self
    /\ UNCHANGED <<flatten_vars, ssa_vars, package_vars>>

NextProgram ==
    /\ visited # NoStatement
    /\ flattener' = [returns |-> <<>>, finalizes |-> <<>>, counter |-> 0]
    /\ function' = NoFunction
    /\ flattened' = NoFunction
    /\ generator' = [variable_mapping |-> <<>>, composite_mapping |-> <<>>,
                     current_function |-> NoFunction, next_register |-> 0]
    /\ visited' = NoStatement
    /\ emitted' = Emitted(<<>>)
    /\ assigner' = [counter |-> 0, rename_table |-> <<EmptyFrame>>,
                    circuits |-> EmptyFrame, is_lhs |-> FALSE, created |-> <<>>]
    /\ produced' = [halted |-> FALSE, expression |-> NoExpression, statements |-> <<>>]
    /\ ssa_block' = <<>>
    /\ UNCHANGED <<consumed, package_vars>>

PipelineNext == ConsumeFunction \/ FlattenFunction \/ GenerateFunction \/ NextProgram

PipelineSpec == Init /\ [][PipelineNext]_vars

(***************************************************************************)
(* Reading a flattened block.                                              *)
(***************************************************************************)
Positions(block, kind) == {i \in 1..Len(block) : block[i].kind = kind}

Recorded(block) ==
    SelectSeq(block, LAMBDA stmt : stmt.kind = "Return")

Invocations(block) ==
    SelectSeq(block, LAMBDA stmt : stmt.kind = "Finalize")

IsPrefixOf(prefix, place) ==
    \E n \in 0..flattener.counter : place = Identifier(unique_symbol(prefix, n))

FoldAssigns(block, prefix) ==
    {i \in Positions(block, "Assign") : IsPrefixOf(prefix, block[i].place)}

FinPrefix(i) == "fin$" \o ToString(i - 1) \o "$"

\* The value of an atomic operand: a name assigned earlier in the block has
\* the value stored for it, any other atom stands for itself.
Operand(store, atom) ==
    IF atom.kind = "Identifier" /\ atom.name \in DOMAIN store
    THEN store[atom.name]
    ELSE atom

Truth(env, guard) ==
    IF guard.kind = "Literal" THEN guard.value = "true" ELSE env[guard.name]

\* Runs the assignments block[i..n] in order and returns the store.
RECURSIVE Execute(_, _, _, _, _)
Execute(block, i, n, store, env) ==
    IF i > n
    THEN store
    ELSE LET stmt == block[i]
             value == IF stmt.value.kind # "Ternary"
                      THEN Operand(store, stmt.value)
                      ELSE IF Truth(env, stmt.value.condition)
                           THEN Operand(store, stmt.value.if_true)
                           ELSE Operand(store, stmt.value.if_false)
         IN  IF stmt.kind = "Assign"
             THEN Execute(block, i + 1, n,
                          [name \in DOMAIN store \cup {stmt.place.name} |->
                              IF name = stmt.place.name THEN value ELSE store[name]],
                          env)
             ELSE Execute(block, i + 1, n, store, env)

EmptyStore == [name \in {} |-> Identifier("")]

\* The value returned by a flattened block under the guard valuation env.
Returned(block, env) ==
    LET r == CHOOSE i \in Positions(block, "Return") : TRUE
    IN  Operand(Execute(block, 1, r - 1, EmptyStore, env), block[r].expression)

\* The value the recorded returns <<g_1,v_1>>, ..., <<g_n,v_n>> select.
RECURSIVE Selected(_, _, _)
Selected(returns, i, env) ==
    IF i = Len(returns) \/ Truth(env, returns[i].guard)
    THEN returns[i].expression
    ELSE Selected(returns, i + 1, env)

Valuations == [GuardNames -> BOOLEAN]

\* The payload values a Return of the block can yield.
Payloads(block) == {Returned(block, env) : env \in Valuations}

Done == flattened # NoFunction

(***************************************************************************)
(* C1: after reconstruct_function the body holds at most one Return and at *)
(* most one Finalize, and no assignment follows either of them.            *)
(***************************************************************************)
C1_TerminalsLast ==
    Done =>
        LET block == flattened.block
        IN  /\ Cardinality(Positions(block, "Return")) <= 1
            /\ Cardinality(Positions(block, "Finalize")) <= 1
            /\ \A t \in Positions(block, "Return") \cup Positions(block, "Finalize") :
                  \A a \in Positions(block, "Assign") : a < t

(***************************************************************************)
(* C2: for a non-empty list of recorded returns the Return appended to the *)
(* body yields v_i for the smallest i < n whose guard holds and v_n when   *)
(* none of g_1..g_(n-1) holds, whatever g_n is; the n-1 fold assignments   *)
(* stand in order of creation right before the Return.                     *)
(***************************************************************************)
C2_ReturnFold ==
    (Done /\ Recorded(function.block) # <<>>) =>
        LET block == flattened.block
            returns == Recorded(function.block)
            n == Len(returns)
        IN  /\ Cardinality(Positions(block, "Return")) = 1
            /\ \A env \in Valuations :
                  Returned(block, env) = Selected(returns, 1, env)
            /\ LET r == CHOOSE i \in Positions(block, "Return") : TRUE
               IN  /\ r > n - 1
                   /\ \E k \in 0..flattener.counter :
                         \A j \in 1..(n - 1) :
                            /\ block[r - n + j].kind = "Assign"
                            /\ block[r - n + j].place = Identifier(unique_symbol("ret$", k + j - 1))

C2_Witness ==
    /\ Done
    /\ Len(Recorded(function.block)) = 3
    /\ Recorded(function.block)[1].guard = Identifier("c1")
    /\ Recorded(function.block)[2].guard = Identifier("c0")
    /\ Recorded(function.block)[3].guard = Identifier("c1")
    /\ Cardinality(Payloads(flattened.block)) = 3

(***************************************************************************)
(* C3: the finalize block is finished before the body is reconstructed: a  *)
(* return of the finalize block is folded only into the finalize block's   *)
(* Return and a return of the body only into the body's Return.            *)
(***************************************************************************)
Values(returns) == {returns[i].expression : i \in 1..Len(returns)}

C3_FinalizeBlockFirst ==
    (Done /\ function.finalize.present) =>
        LET inner == Recorded(function.finalize.block)
            outer == Recorded(function.block)
        IN  /\ Cardinality(Positions(flattened.finalize.block, "Return")) =
                  (IF inner = <<>> THEN 0 ELSE 1)
            /\ Cardinality(Positions(flattened.block, "Return")) =
                  (IF outer = <<>> THEN 0 ELSE 1)
            /\ inner # <<>> =>
                  /\ Payloads(flattened.finalize.block) \subseteq Values(inner)
                  /\ \A env \in Valuations :
                        Returned(flattened.finalize.block, env) = Selected(inner, 1, env)
            /\ outer # <<>> =>
                  /\ Payloads(flattened.block) \subseteq Values(outer)
                  /\ \A env \in Valuations :
                        Returned(flattened.block, env) = Selected(outer, 1, env)

C3_Witness ==
    /\ Done
    /\ function.finalize.present
    /\ Len(Recorded(function.finalize.block)) = 2
    /\ Len(Recorded(function.block)) = 2
    /\ Cardinality(Positions(flattened.finalize.block, "Return")) = 1
    /\ Cardinality(Positions(flattened.block, "Return")) = 1

(***************************************************************************)
(* C4 as stated: two early returns and one finalize invocation give two    *)
(* ret$ fold ternaries, one fin$<i>$ fold ternary per argument position,   *)
(* one Return and one Finalize.                                            *)
(***************************************************************************)
TwoReturnsOneFinalize ==
    /\ Done
    /\ Len(Recorded(function.block)) = 2
    /\ Len(Invocations(function.block)) = 1

C1_Witness ==
    /\ Done
    /\ Recorded(function.block) # <<>>
    /\ Len(Invocations(function.block)) = 2
    /\ \E a \in Positions(flattened.block, "Assign") :
          \E r \in Positions(flattened.block, "Return") : r < a

(***************************************************************************)
(* Reading emitted text.                                                   *)
(***************************************************************************)
Starts(text, fragment) == {i \in 1..Len(text) : text[i] = fragment}

Arity(type) == IF type.kind = "Tuple" THEN Len(type.types) ELSE 1

(***************************************************************************)
(* C5: visit_return emits exactly as many output lines as the arity of the *)
(* function's return type (N for a tuple of N members, 1 otherwise), the   *)
(* i-th line with the i-th type, after the instructions of the expression. *)
(***************************************************************************)
C5_OutputPerMember ==
    (visited # NoStatement /\ visited.kind = "Return" /\ ~emitted.halted) =>
        LET type == generator.current_function.output_type
            types == visit_return_type(generator, type, "Private").types
            outputs == Starts(emitted.text, "    output ")
        IN  /\ Cardinality(outputs) = Arity(type)
            /\ \A o \in outputs : \A i \in Starts(emitted.text, "    ") : i < o
            /\ \A i \in 1..Len(types) :
                  \E o \in outputs :
                     /\ Cardinality({p \in outputs : p < o}) = i - 1
                     /\ \E n \in 1..Len(emitted.text) :
                           /\ emitted.text[o + n] = " as "
                           /\ SubSeq(emitted.text, o + n + 1, o + n + Len(types[i]))
                                 = types[i]

(***************************************************************************)
(* C6: for an Increment, Decrement or Finalize statement with atomic       *)
(* operands visit_statement does not halt and returns one instruction      *)
(* line, 4-space indented and newline-terminated.                          *)
(***************************************************************************)
C6_MnemonicEmitted ==
    (visited # NoStatement /\ visited.kind \in {"Increment", "Decrement", "Finalize"}) =>
        /\ ~emitted.halted
        /\ emitted.text # <<>>
        /\ emitted.text[1] = "    "
        /\ Starts(emitted.text, ";\n") = {Len(emitted.text)}

(***************************************************************************)
(* C7: visit_type_with_visibility ends a non-composite type with .private  *)
(* when no visibility is given and with .<visibility> otherwise; a         *)
(* composite type is <lowercased name>.<suffix of composite_mapping> with  *)
(* no visibility; a composite absent from composite_mapping, a tuple type  *)
(* and the error type halt.                                                *)
(***************************************************************************)
VisibilityWords == {"private", "public", "constant"}

C7_TypeVisibility ==
    (visited # NoStatement /\ visited.kind = "Type") =>
        LET type == visited.type
            text == emitted.text
        IN  /\ type.kind \in PrimitiveTypes =>
                  /\ ~emitted.halted
                  /\ Len(text) = 3
                  /\ text[1] = TypeDisplay(type.kind)
                  /\ text[2] = "."
                  /\ visited.visibility = NoMode => text[3] = "private"
                  /\ visited.visibility = "Private" => text[3] = "private"
                  /\ visited.visibility = "Public" => text[3] = "public"
                  /\ visited.visibility = "Const" => text[3] = "constant"
            /\ (type.kind = "Identifier" /\ type.name \in DOMAIN generator.composite_mapping) =>
                  /\ ~emitted.halted
                  /\ text = <<to_lowercase(type.name), ".",
                              generator.composite_mapping[type.name]>>
                  /\ Range(text) \cap VisibilityWords = {}
            /\ (type.kind = "Identifier" /\ type.name \notin DOMAIN generator.composite_mapping) =>
                  emitted.halted
            /\ type.kind \in {"Tuple", "Err"} => emitted.halted

C7_Witness ==
    /\ visited # NoStatement
    /\ visited.kind = "Type"
    /\ visited.type = CompositeType("Token")
    /\ visited.visibility = "Public"
    /\ emitted = Emitted(<<"token", ".", "record">>)

(***************************************************************************)
(* Reading SSA statements.                                                 *)
(***************************************************************************)
IsAtomic(expression) == expression.kind \in {"Identifier", "Literal"}

Operations ==
    {"Binary", "Unary", "Ternary", "Call", "Circuit", "MemberAccess", "TupleAccess",
     "AssociatedFunction", "AssociatedConstant"}

AllAtomic(expressions) == \A i \in 1..Len(expressions) : IsAtomic(expressions[i])

\* The value is one operation and each of its operands is atomic.
AtomicOperation(value) ==
    CASE value.kind = "Binary" -> IsAtomic(value.left) /\ IsAtomic(value.right)
      [] value.kind = "Unary" -> IsAtomic(value.receiver)
      [] value.kind = "Ternary" ->
            IsAtomic(value.condition) /\ IsAtomic(value.if_true) /\ IsAtomic(value.if_false)
      [] value.kind = "Call" -> AllAtomic(value.arguments)
      [] value.kind = "Circuit" ->
            \A i \in 1..Len(value.members) : IsAtomic(value.members[i].expression)
      [] value.kind = "MemberAccess" -> IsAtomic(value.inner)
      [] value.kind = "TupleAccess" -> IsAtomic(value.tuple)
      [] value.kind = "AssociatedFunction" -> AllAtomic(value.args)
      [] value.kind = "AssociatedConstant" -> TRUE
      [] OTHER -> FALSE

ExpressionConsumed == consumed # NoStatement /\ consumed.kind # "Assign"

(***************************************************************************)
(* C8: every assignment emitted by the consumption of an expression has a  *)
(* right-hand side that is one operation whose operands are all            *)
(* identifiers or literals.                                                *)
(***************************************************************************)
C8_AtomicOperands ==
    ExpressionConsumed =>
        \A i \in 1..Len(produced.statements) :
            AtomicOperation(produced.statements[i].value)

(***************************************************************************)
(* C9: within one function no two assignments emitted by the SSA pass have *)
(* the same left-hand side, and each fresh name carries a counter strictly *)
(* greater than that of every name created before it.                      *)
(***************************************************************************)
C9_UniqueNames ==
    /\ \A i, j \in 1..Len(ssa_block) :
          i < j => ssa_block[i].place # ssa_block[j].place
    /\ \A i, j \in 1..Len(assigner.created) :
          i < j => assigner.created[i].counter < assigner.created[j].counter
    /\ \A i \in 1..Len(assigner.created) :
          assigner.created[i].name =
              unique_symbol(assigner.created[i].prefix, assigner.created[i].counter)
    /\ \A i \in 1..Len(ssa_block) :
          \E k \in 1..Len(assigner.created) :
              ssa_block[i].place = Identifier(assigner.created[k].name)

C9_Witness ==
    /\ Len(ssa_block) >= 4
    /\ \E i, j \in 1..Len(assigner.created) :
          /\ i < j
          /\ assigner.created[i].prefix = "a"
          /\ assigner.created[j].prefix = "a"
    /\ \E k \in 1..Len(assigner.created) : assigner.created[k].prefix = "$var"

\* The fragments of a text run together.
RECURSIVE Concat(_)
Concat(fragments) ==
    IF fragments = <<>> THEN "" ELSE Head(fragments) \o Concat(Tail(fragments))

\* The function of the early-return example.
EarlyReturn ==
    Program(BinaryExpression("Eq", Identifier("flag"), Literal("0u8")),
            Branch(Literal("1u8"), TRUE), Branch(Literal("2u8"), FALSE))

Compiled == function = EarlyReturn /\ visited # NoStatement /\ ~emitted.halted

Spans == {span \in (1..Len(emitted.text)) \X (1..Len(emitted.text)) : span[1] <= span[2]}

After(span) == {next \in Spans : next[1] > span[2]}

\* What the generator emits for an operand: the register of a name, a
\* literal as it is.
OperandText(operand) ==
    IF operand \in DOMAIN generator.variable_mapping
    THEN Concat(generator.variable_mapping[operand])
    ELSE operand

\* The span of the emitted text is the instruction opcode over the operands,
\* and its destination register is what name is bound to.
EmitsAt(span, opcode, operands, name) ==
    /\ name \in DOMAIN generator.variable_mapping
    /\ Concat(SubSeq(emitted.text, span[1], span[2])) =
           "    " \o opcode \o " "
               \o Concat(Join([i \in 1..Len(operands) |-> <<OperandText(operands[i])>>],
                              " "))
               \o " into " \o OperandText(name) \o ";\n"

\* The emitted text ends with the span, which is the output of name as type.
OutputsAt(span, name, type) ==
    /\ span[2] = Len(emitted.text)
    /\ Concat(SubSeq(emitted.text, span[1], span[2])) =
           "    output " \o OperandText(name) \o " as " \o type \o ";\n"

\* In order: is.eq into cond, add v 1u8 into first, add v 2u8 into second,
\* ternary cond first second into merged, ternary cond first merged into
\* the returned value, and the output line last.
EarlyReturnBytecode(cond, first, second, merged) ==
    \E final \in DOMAIN generator.variable_mapping :
    \E s1 \in Spans :
       /\ EmitsAt(s1, "is.eq", <<"flag", "0u8">>, cond)
       /\ \E s2 \in After(s1) :
            /\ EmitsAt(s2, "add", <<"v", "1u8">>, first)
            /\ \E s3 \in After(s2) :
                 /\ EmitsAt(s3, "add", <<"v", "2u8">>, second)
                 /\ \E s4 \in After(s3) :
                      /\ EmitsAt(s4, "ternary", <<cond, first, second>>, merged)
                      /\ \E s5 \in After(s4) :
                           /\ EmitsAt(s5, "ternary", <<cond, first, merged>>, final)
                           /\ \E s6 \in After(s5) : OutputsAt(s6, final, "u8.private")

(***************************************************************************)
(* C10: for f(flag: u8, v: u8) -> u8 { if (flag == 0u8) { v += 1u8;        *)
(* return v; } else { v += 2u8; } return v; } SSA, flattening and code     *)
(* generation yield, in order, an is.eq producing $cond$0, an add          *)
(* producing v$1 from v and 1u8, an add producing v$3 from v and 2u8, a    *)
(* ternary producing v$4 from $cond$0, v$1, v$3, a ternary producing the   *)
(* returned value from $cond$0, v$1, v$4, and one output line as           *)
(* u8.private at the end.                                                  *)
(***************************************************************************)
C10_EarlyReturnBytecode ==
    Compiled => EarlyReturnBytecode("$cond$0", "v$1", "v$3", "v$4")

(***************************************************************************)
(* The output-file writer, AleoFile.  A path is the sequence of its        *)
(* components; the file system holds the directories and, for each file,   *)
(* its bytes (a sequence of fragments).                                    *)
(***************************************************************************)
MaxPathLen == 2   \* components of a path handed to the AleoFile
MaxFiles == 1     \* files on the disk at a time

OUTPUTS_DIRECTORY_NAME == "outputs"

CHECKSUM_FILE_EXTENSION == ".aleo"

AleoFile(package_name) == [package_name |-> package_name]

is_dir(fs, path) == path \in fs.dirs

is_file(fs, path) == path \in DOMAIN fs.files

exists(fs, path) == is_dir(fs, path) \/ is_file(fs, path)

\* Path::ends_with on one component: the last component is child.
ends_with(path, child) == path # <<>> /\ Last(path) = child

\* PathBuf::push of a relative component.
push(path, component) == Append(path, component)

Parent(path) == SubSeq(path, 1, Len(path) - 1)

(***************************************************************************)
(* AleoFile::setup_file_path.                                              *)
(***************************************************************************)
setup_file_path_pushing_outputs(self, fs, path) ==
    IF is_dir(fs, path)
    THEN push(push(path, OUTPUTS_DIRECTORY_NAME),
              self.package_name \o CHECKSUM_FILE_EXTENSION)
    ELSE path

setup_file_path(self, fs, path) ==
    IF is_dir(fs, path)
    THEN push(IF ~ends_with(path, OUTPUTS_DIRECTORY_NAME)
              THEN push(path, OUTPUTS_DIRECTORY_NAME)
              ELSE path,
              self.package_name \o CHECKSUM_FILE_EXTENSION)
    ELSE path

\* File::create: the file is created or truncated.  It fails on a path
\* that is a directory or whose parent is no directory, and whenever the
\* system refuses (granted = FALSE).
can_create(fs, path, granted) ==
    /\ granted
    /\ path # <<>>
    /\ ~is_dir(fs, path)
    /\ Len(path) = 1 \/ is_dir(fs, Parent(path))

WithFile(fs, path, bytes) ==
    [fs EXCEPT !.files = [p \in DOMAIN @ \cup {path} |->
                             IF p = path THEN bytes ELSE @[p]]]

WithoutFile(fs, path) ==
    [fs EXCEPT !.files = [p \in DOMAIN @ \ {path} |-> @[p]]]

\* format!("program {};\n\n", self.package_name) followed by the bytecode.
aleo_file(self, aleo) == <<"program ", self.package_name, ";\n\n">> \o aleo

(***************************************************************************)
(* AleoFile::write_to.  write_all fails after `written` fragments have     *)
(* reached the file when written is less than the length of the text.      *)
(***************************************************************************)
Returned_(op, path, resolved, ok, value, created, fs) ==
    [op |-> op, path |-> path, resolved |-> resolved, ok |-> ok, value |-> value,
     created |-> created, fs |-> fs]

write_all(self, path, resolved, fs, text, written) ==
    IF written < Len(text)
    THEN Returned_("write_to", path, resolved, FALSE, "io_error_aleo_file", TRUE,
                   WithFile(fs, resolved, SubSeq(text, 1, written)))
    ELSE Returned_("write_to", path, resolved, TRUE, "", TRUE,
                   WithFile(fs, resolved, text))

create_then_write(self, path, resolved, fs, aleo, granted, written) ==
    IF ~can_create(fs, resolved, granted)
    THEN Returned_("write_to", path, resolved, FALSE, "io_error_aleo_file", FALSE, fs)
    ELSE write_all(self, path, resolved, fs, aleo_file(self, aleo), written)

write_to(self, fs, path, aleo, granted, written) ==
    create_then_write(self, path, setup_file_path(self, fs, path), fs, aleo, granted,
                      written)

(***************************************************************************)
(* AleoFile::exists_at, read_from and remove.                              *)
(***************************************************************************)
path_exists(path, resolved, fs) ==
    Returned_("exists_at", path, resolved, TRUE, exists(fs, resolved), FALSE, fs)

exists_at(self, fs, path) == path_exists(path, setup_file_path(self, fs, path), fs)

read_to_string(path, resolved, fs) ==
    IF is_file(fs, resolved)
    THEN Returned_("read_from", path, resolved, TRUE, fs.files[resolved], FALSE, fs)
    ELSE Returned_("read_from", path, resolved, FALSE, "failed_to_read_aleo_file",
                   FALSE, fs)

read_from(self, fs, path) == read_to_string(path, setup_file_path(self, fs, path), fs)

remove_file(path, resolved, fs, granted) ==
    IF ~exists(fs, resolved)
    THEN Returned_("remove", path, resolved, TRUE, FALSE, FALSE, fs)
    ELSE IF is_file(fs, resolved) /\ granted
         THEN Returned_("remove", path, resolved, TRUE, TRUE, FALSE,
                        WithoutFile(fs, resolved))
         ELSE Returned_("remove", path, resolved, FALSE, "failed_to_remove_aleo_file",
                        FALSE, fs)

remove(self, fs, path, granted) ==
    remove_file(path, setup_file_path(self, fs, path), fs, granted)

(***************************************************************************)
(* The writer as a state machine.  The disk starts with some of the        *)
(* directories below and no file; the package is named token.              *)
(***************************************************************************)
Components == {"proj", OUTPUTS_DIRECTORY_NAME}

Paths == UNION {[1..k -> Components] : k \in 1..MaxPathLen}

Layouts ==
    {{<<"proj">>},
     {<<"proj">>, <<"proj", "outputs">>},
     {<<"outputs">>},
     {<<"proj">>, <<"outputs">>, <<"outputs", "outputs">>}}

Bytecodes == {<<"function main:\n", "    input r0 as u8.private;\n">>}

Package == AleoFile("token")

PackageInit ==
    /\ FlattenIdle
    /\ CodegenIdle
    /\ SsaIdle
    /\ disk \in {[dirs |-> layout, files |-> <<>>] : layout \in Layouts}
    /\ call = NoCall

Return(r) ==
    /\ call' = [op |-> r.op, path |-> r.path, resolved |-> r.resolved, ok |-> r.ok,
                value |-> r.value, created |-> r.created]
    /\ disk' = r.fs
    /\ UNCHANGED <<flatten_vars, codegen_vars, ssa_vars>>

WriteTo ==
    \E path \in Paths, aleo \in Bytecodes, granted \in BOOLEAN :
        \E written \in 0..Len(aleo_file(Package, aleo)) :
            /\ Cardinality(DOMAIN disk.files
                           \cup {setup_file_path(Package, disk, path)}) <= MaxFiles
            /\ Return(write_to(Package, disk, path, aleo, granted, written))

ExistsAt == \E path \in Paths : Return(exists_at(Package, disk, path))

ReadFrom == \E path \in Paths : Return(read_from(Package, disk, path))

Remove ==
    \E path \in Paths, granted \in BOOLEAN : Return(remove(Package, disk, path, granted))

PackageNext == WriteTo \/ ExistsAt \/ ReadFrom \/ Remove

PackageSpec == PackageInit /\ [][PackageNext]_vars

(***************************************************************************)
(* C11: when write_to fails after the output file has been created         *)
(* (write_all returns an error), the partially written file no longer      *)
(* exists at the resolved path when the error is returned.                 *)
(***************************************************************************)
C11_PartialFileRemoved ==
    (call # NoCall /\ call.op = "write_to" /\ ~call.ok /\ call.created)
        => ~exists(disk, call.resolved)

\* What setup_file_path is to return for a directory.
UnderOutputs(path, name) ==
    IF Last(path) = "outputs"
    THEN path \o <<name \o ".aleo">>
    ELSE path \o <<"outputs", name \o ".aleo">>

\* The disk on which the last call resolved its path: write_to and remove
\* change files only, never directories.
WasDirectory(path) == is_dir(disk, path)

(***************************************************************************)
(* C14: setup_file_path resolves a directory P to P/outputs/<name>.aleo,   *)
(* or to P/<name>.aleo when the last component of P is already outputs;    *)
(* a path that is not a directory is returned unchanged.                   *)
(***************************************************************************)
C14_ResolvedPath ==
    call # NoCall =>
        call.resolved = IF WasDirectory(call.path)
                        THEN UnderOutputs(call.path, Package.package_name)
                        ELSE call.path

C14_Witness ==
    /\ call # NoCall
    /\ call.op = "write_to"
    /\ call.ok
    /\ \E p, q \in Paths :
          /\ is_dir(disk, p) /\ Last(p) = "outputs"
          /\ is_dir(disk, q) /\ Last(q) # "outputs" /\ is_dir(disk, push(q, "outputs"))
    /\ is_dir(disk, call.path)
    /\ Last(call.path) = "outputs"
    /\ is_file(disk, call.resolved)

\* The text of an atomic operand: a literal is its own text, an identifier
\* the register it was mapped to.
AtomText(self, e) ==
    IF e.kind = "Literal" THEN e.value ELSE Concat(self.variable_mapping[e.name])

Atomic(e) == e.kind \in {"Literal", "Identifier"}

\* What visiting the console statement input in the generator self is to emit.
ConsoleText(self, input) ==
    LET f == input.function
    IN  IF f.variant = "Assert"
        THEN LET e == visit_expression(self, f.expression)
             IN  Concat(e.instructions)
                 \o "    assert.eq " \o Concat(e.operand) \o " true;\n"
        ELSE LET l == visit_expression(self, f.left)
                 r == visit_expression(l.self, f.right)
             IN  Concat(l.instructions) \o Concat(r.instructions)
                 \o "    " \o (IF f.variant = "AssertEq" THEN "assert.eq" ELSE "assert.neq")
                 \o " " \o Concat(l.operand) \o " " \o Concat(r.operand) \o ";\n"

AtomicConsoleText(self, input) ==
    LET f == input.function
    IN  IF f.variant = "Assert"
        THEN "    assert.eq " \o AtomText(self, f.expression) \o " true;\n"
        ELSE "    " \o (IF f.variant = "AssertEq" THEN "assert.eq" ELSE "assert.neq")
             \o " " \o AtomText(self, f.left) \o " " \o AtomText(self, f.right) \o ";\n"

AtomicConsole(input) ==
    IF input.function.variant = "Assert"
    THEN Atomic(input.function.expression)
    ELSE Atomic(input.function.left) /\ Atomic(input.function.right)

(***************************************************************************)
(* C13: visiting a console statement emits the instructions of the left    *)
(* operand, then those of the right operand, then one line                 *)
(* `    assert.eq <l> <r>;` or `    assert.neq <l> <r>;`; assert(e) emits  *)
(* e's instructions and then `    assert.eq <op> true;`.  With atomic      *)
(* operands the text is that one line.                                     *)
(***************************************************************************)
C13_ConsoleInstructions ==
    [][("kind" \in DOMAIN visited' /\ visited'.kind = "Console" /\ ~emitted'.halted) =>
          /\ Concat(emitted'.text) = ConsoleText(generator, visited')
          /\ AtomicConsole(visited') =>
                Concat(emitted'.text) = AtomicConsoleText(generator, visited')]_vars

C13_Witness ==
    /\ "kind" \in DOMAIN visited
    /\ visited.kind = "Console"
    /\ visited.function.variant = "AssertNeq"
    /\ ~Atomic(visited.function.left)
    /\ ~Atomic(visited.function.right)
    /\ visited.function.left # visited.function.right
    /\ ~emitted.halted
    /\ emitted.text # <<>>

\* The composite type of an expression over the inputs of the function, ""
\* when it has none: s is a Foo and mk returns a Foo.
CompositeOf(e) ==
    CASE e.kind = "Circuit" -> e.name
      [] e.kind = "Call" /\ e.function = "mk" -> "Foo"
      [] e.kind = "Identifier" /\ e.name = "s" -> "Foo"
      [] OTHER -> ""

CreatedNames(self) == {self.created[i].name : i \in 1..Len(self.created)}

\* The statement of the sequence that assigns to place.
BindingOf(statements, place) ==
    {statements[i].value : i \in {j \in 1..Len(statements) : statements[j].place = place}}

IsTernaryStatement(statement) == statement.value.kind = "Ternary"

\* The composite case as the claim describes it, for the ternary input
\* consumed from the pass state self into the result r: after the statements
\* of the condition and of the branches, one ternary per member of type over
\* the members of the two branches, then the initializer bound to a fresh
\* name, which is returned and recorded in circuits.
MemberTernaries(self, input, r, type, cond, first, second) ==
    LET members == lookup_circuit(type).members
        statements == r.statements
        n == Len(statements)
        ternaries == SelectSeq(statements, IsTernaryStatement)
    IN  /\ ~r.halted
        /\ n > 0
        /\ r.expression.kind = "Identifier"
        /\ r.expression.name \notin CreatedNames(self)
        /\ r.expression.name \in CreatedNames(r.self)
        /\ statements[n].place = r.expression
        /\ statements[n].value.kind = "Circuit"
        /\ statements[n].value.name = type
        /\ Len(ternaries) = Len(members)
        /\ Len(statements[n].value.members) = Len(members)
        /\ \A i \in 1..Len(members) :
              /\ ternaries[i].value.condition = cond
              /\ BindingOf(statements, ternaries[i].value.if_true)
                    = {MemberAccess(first, members[i])}
              /\ BindingOf(statements, ternaries[i].value.if_false)
                    = {MemberAccess(second, members[i])}
              /\ statements[n].value.members[i]
                    = CircuitVariableInitializer(members[i], ternaries[i].place)
        /\ r.expression.name \in DOMAIN r.self.circuits
        /\ r.self.circuits[r.expression.name] = type

CompositeTernary(self, input, r, cond, first, second) ==
    MemberTernaries(self, input, r, CompositeOf(input.if_true), cond.expression,
                    first.expression, second.expression)

CompositeTernaryAfter(self, input, r, cond, first) ==
    CompositeTernary(self, input, r, cond, first,
                     consume_expression(first.self, input.if_false))

CompositeTernaryFrom(self, input, r, cond) ==
    CompositeTernaryAfter(self, input, r, cond,
                          consume_expression(cond.self, input.if_true))

TernaryOfComposites(input) ==
    /\ "kind" \in DOMAIN input
    /\ input.kind = "Ternary"
    /\ CompositeOf(input.if_true) # ""
    /\ CompositeOf(input.if_true) = CompositeOf(input.if_false)

(***************************************************************************)
(* C15: a ternary whose two consumed branches are identifiers of the same  *)
(* composite type, however each was bound, is consumed into one member     *)
(* ternary per member of the composite in declared order, then one         *)
(* composite initializer bound to a fresh name; that name is returned and  *)
(* recorded in circuits with the composite's type.                         *)
(***************************************************************************)
C15_CompositeTernary ==
    [][TernaryOfComposites(consumed') =>
          CompositeTernaryFrom(assigner, consumed',
              [halted |-> produced'.halted, expression |-> produced'.expression,
               statements |-> produced'.statements, self |-> assigner'],
              consume_expression(assigner, consumed'.condition))]_vars

\* The name the latest assignment to name was given, name itself when it
\* has not been assigned.
LatestName(self, name) ==
    LET made == {i \in 1..Len(self.created) : self.created[i].prefix = name}
    IN  IF made = {}
        THEN name
        ELSE self.created[CHOOSE i \in made : \A j \in made : j <= i].name

Resolves(self, original, name) ==
    lookup(self.rename_table, original) = [found |-> TRUE, name |-> name]

\* An identifier consumed on a right-hand side.
RightHandSide(before, input, result, after) ==
    /\ ~result.halted
    /\ result.expression = Identifier(LatestName(before, input.name))
    /\ result.statements = <<>>
    /\ after = before

\* An identifier consumed as the place of the assignment input.
LeftHandSide(before, input, result, after) ==
    LET original == input.place.name
        fresh == Last(result.statements).place.name
        made == {i \in (Len(before.created) + 1)..Len(after.created) :
                    after.created[i].prefix = original}
    IN  /\ ~result.halted
        /\ fresh \notin CreatedNames(before)
        /\ Cardinality(made) = 1
        /\ \A i \in made : after.created[i].name = fresh
        /\ Resolves(after, original, fresh)
        /\ LatestName(after, original) = fresh
        /\ \A other \in {"a", "b", "c"} \ {original} :
              lookup(after.rename_table, other) = lookup(before.rename_table, other)

(***************************************************************************)
(* C16: an identifier on a right-hand side is consumed into the current    *)
(* binding of its name, or into the name itself when it has none, with no  *)
(* statement and no change of the pass state; an identifier on a left-hand *)
(* side gets one fresh name, which the rename table records and to which   *)
(* every later right-hand-side use resolves.                               *)
(***************************************************************************)
C16_IdentifierRenaming ==
    [][/\ ("kind" \in DOMAIN consumed' /\ consumed'.kind = "Identifier") =>
             RightHandSide(assigner, consumed', produced', assigner')
       /\ ("kind" \in DOMAIN consumed' /\ consumed'.kind = "Assign") =>
             LeftHandSide(assigner, consumed', produced', assigner')
       /\ ("kind" \in DOMAIN consumed' /\ consumed' = Sum) =>
             /\ Last(produced'.statements).value.left
                   = Identifier(LatestName(assigner, "a"))
             /\ Last(produced'.statements).value.right
                   = Identifier(LatestName(assigner, "b"))]_vars

C16_Witness ==
    /\ "kind" \in DOMAIN consumed
    /\ consumed.kind = "Identifier"
    /\ ~produced.halted
    /\ produced.expression.name # consumed.name
    /\ Resolves(assigner, consumed.name, produced.expression.name)
    /\ \E i, j \in 1..Len(assigner.created) :
          /\ i < j
          /\ assigner.created[i].prefix = consumed.name
          /\ assigner.created[j].prefix = consumed.name
          /\ assigner.created[j].name = produced.expression.name

\* An identifier or a literal that is no composite bound by an initializer.
Scalar(self, e) ==
    \/ e.kind = "Literal"
    \/ e.kind = "Identifier" /\ e.name \notin DOMAIN self.circuits

\* The pairs of leaves of two tuples of the same shape, left to right.
RECURSIVE LeafPairs(_, _)
LeafPairs(first, second) ==
    IF first.kind = "Tuple" /\ second.kind = "Tuple"
    THEN FlattenSeq([i \in 1..Len(first.elements) |->
                        LeafPairs(first.elements[i], second.elements[i])])
    ELSE <<<<first, second>>>>

\* element is what cond ? first : second is consumed into: a tuple of such
\* elements for two tuples, a name bound to the one ternary for two scalars.
RECURSIVE SelectsBetween(_, _, _, _, _, _)
SelectsBetween(self, statements, cond, element, first, second) ==
    IF first.kind = "Tuple" /\ second.kind = "Tuple"
    THEN /\ element.kind = "Tuple"
         /\ Len(element.elements) = Len(first.elements)
         /\ Len(element.elements) = Len(second.elements)
         /\ \A i \in 1..Len(element.elements) :
               SelectsBetween(self, statements, cond, element.elements[i],
                              first.elements[i], second.elements[i])
    ELSE /\ element.kind = "Identifier"
         /\ (Scalar(self, first) /\ Scalar(self, second)) =>
               BindingOf(statements, element) = {TernaryExpression(cond, first, second)}

ScalarPair(self, pair) == Scalar(self, pair[1]) /\ Scalar(self, pair[2])

\* The tuple case as the claim describes it.
TupleSelected(self, r, cond, first, second) ==
    /\ ~r.halted
    /\ SelectsBetween(self, r.statements, cond, r.expression, first, second)
    /\ \A i \in 1..Len(r.statements) : r.statements[i].value.kind # "Tuple"
    /\ \A i \in 1..Len(LeafPairs(first, second)) :
          ScalarPair(self, LeafPairs(first, second)[i]) =>
              Cardinality({j \in 1..Len(r.statements) :
                              r.statements[j].value
                                  = TernaryExpression(cond, LeafPairs(first, second)[i][1],
                                                      LeafPairs(first, second)[i][2])})
                  = Cardinality({j \in 1..Len(LeafPairs(first, second)) :
                                    LeafPairs(first, second)[j]
                                        = LeafPairs(first, second)[i]})

TupleTernary(r, cond, first, second) ==
    IF Len(first.expression.elements) = Len(second.expression.elements)
    THEN TupleSelected(second.self, r, cond.expression, first.expression,
                       second.expression)
    ELSE r.halted

TupleTernaryAfter(input, r, cond, first) ==
    TupleTernary(r, cond, first, consume_expression(first.self, input.if_false))

TupleTernaryFrom(input, r, cond) ==
    TupleTernaryAfter(input, r, cond, consume_expression(cond.self, input.if_true))

TernaryOfTuples(input) ==
    /\ "kind" \in DOMAIN input
    /\ input.kind = "Ternary"
    /\ input.if_true.kind = "Tuple"
    /\ input.if_false.kind = "Tuple"

RECURSIVE NamesIn(_)
NamesOfEach(expressions) == UNION {NamesIn(expressions[i]) : i \in 1..Len(expressions)}

NamesIn(e) ==
    CASE e.kind = "Identifier" -> {e.name}
      [] e.kind = "Binary" -> NamesIn(e.left) \cup NamesIn(e.right)
      [] e.kind = "Unary" -> NamesIn(e.receiver)
      [] e.kind = "Ternary" ->
            NamesIn(e.condition) \cup NamesIn(e.if_true) \cup NamesIn(e.if_false)
      [] e.kind = "Call" -> NamesOfEach(e.arguments)
      [] e.kind = "Tuple" -> NamesOfEach(e.elements)
      [] e.kind = "Circuit" ->
            NamesOfEach([i \in 1..Len(e.members) |-> e.members[i].expression])
      [] e.kind = "MemberAccess" -> NamesIn(e.inner)
      [] e.kind = "TupleAccess" -> NamesIn(e.tuple)
      [] e.kind = "AssociatedFunction" -> NamesOfEach(e.args)
      [] OTHER -> {}

\* Every name the pass created is assigned before the statements that use it.
DefinedBeforeUse(block, self) ==
    \A k \in 1..Len(block) :
        \A name \in NamesIn(block[k].value) \cap CreatedNames(self) :
            \E j \in 1..(k - 1) : block[j].place.name = name

\* The statements of the expressions consumed one after the other from self.
RECURSIVE StatementsOfEach(_, _)
StatementsAfter(first, rest) == first.statements \o StatementsOfEach(first.self, rest)

StatementsOfEach(self, expressions) ==
    IF expressions = <<>>
    THEN <<>>
    ELSE StatementsAfter(consume_expression(self, Head(expressions)), Tail(expressions))

\* The expressions a member list stands for: `x,` is `x: x`.
MemberExpressions(members) ==
    [i \in 1..Len(members) |->
        IF members[i].expression = NoExpression
        THEN Identifier(members[i].identifier)
        ELSE members[i].expression]

\* The sub-expressions of a compound expression in evaluation order.
SubExpressions(input) ==
    CASE input.kind = "Binary" -> <<input.left, input.right>>
      [] input.kind = "Ternary" -> <<input.condition, input.if_true, input.if_false>>
      [] input.kind = "Call" -> input.arguments
      [] input.kind = "Circuit" -> MemberExpressions(input.members)

\* The statements are those of the sub-expressions and then one assignment
\* of an expression of the kind of input to a fresh name, which is returned.
OwnAssignmentLast(self, input, r, operands) ==
    /\ Len(r.statements) = Len(operands) + 1
    /\ SubSeq(r.statements, 1, Len(operands)) = operands
    /\ Last(r.statements).place = r.expression
    /\ Last(r.statements).value.kind = input.kind
    /\ r.expression.name \notin CreatedNames(self)
    /\ \A i \in 1..Len(operands) : operands[i].place # r.expression

\* A ternary over two tuples or two composites is expanded: its statements
\* follow those of the condition and the branches.
OperandsFirst(r, operands) ==
    /\ Len(r.statements) >= Len(operands)
    /\ SubSeq(r.statements, 1, Len(operands)) = operands

Expanded(input) ==
    /\ input.kind = "Ternary"
    /\ \/ input.if_true.kind = "Tuple" /\ input.if_false.kind = "Tuple"
       \/ input.if_true.kind = "Circuit" /\ input.if_false.kind = "Circuit"

EvaluationOrder(self, input, r) ==
    IF Expanded(input)
    THEN OperandsFirst(r, StatementsOfEach(self, SubExpressions(input)))
    ELSE OwnAssignmentLast(self, input, r, StatementsOfEach(self, SubExpressions(input)))

Compound(input) ==
    /\ "kind" \in DOMAIN input
    /\ input.kind \in {"Binary", "Ternary", "Call", "Circuit"}

(***************************************************************************)
(* C18: the statements of a consumed binary, ternary, call or composite    *)
(* initializer are those of its sub-expressions in evaluation order (left  *)
(* then right; condition, if-true, if-false; arguments in order) and then  *)
(* its own assignment to a fresh name; every name used as an operand is    *)
(* assigned earlier in the sequence or is free.                            *)
(***************************************************************************)
C18_EvaluationOrder ==
    [][(Compound(consumed') /\ ~produced'.halted) =>
          /\ EvaluationOrder(assigner, consumed',
                 [halted |-> produced'.halted, expression |-> produced'.expression,
                  statements |-> produced'.statements, self |-> assigner'])
          /\ DefinedBeforeUse(ssa_block', assigner')]_vars

C18_Witness ==
    /\ consumed = BinaryExpression("Mul", Sum, Inverse)
    /\ ~produced.halted
    /\ Len(produced.statements) = 3
    /\ produced.statements[1].value.kind = "Binary"
    /\ produced.statements[2].value.kind = "Unary"
    /\ produced.statements[3].value.left = produced.statements[1].place
    /\ produced.statements[3].value.right = produced.statements[2].place
    /\ Len(ssa_block) > 3

\* The fold assignments n recorded values give: one less than the values.
Folds(n) == IF n = 0 THEN 0 ELSE n - 1

(***************************************************************************)
(* C19: after reconstruct_function, for any function, the early-return     *)
(* accumulator and the finalize accumulator of the flattener are empty;    *)
(* over a sequence of functions the Return and the Finalize of a function  *)
(* fold only what was recorded in that function.                           *)
(***************************************************************************)
C19_AccumulatorsDrained ==
    /\ flattener.returns = <<>>
    /\ flattener.finalizes = <<>>
    /\ Done =>
          /\ Cardinality(FoldAssigns(flattened.block, "ret$"))
                = Folds(Len(Recorded(function.block)))
          /\ Cardinality(Positions(flattened.block, "Return"))
                = (IF Recorded(function.block) = <<>> THEN 0 ELSE 1)
          /\ Recorded(function.block) # <<>> =>
                \A env \in Valuations :
                    Returned(flattened.block, env) = Selected(Recorded(function.block), 1, env)
          /\ \A i \in 1..Len(function.finalize.input) :
                Cardinality(FoldAssigns(flattened.block, FinPrefix(i)))
                    = Folds(Len(Invocations(function.block)))

C19_Witness ==
    /\ Done
    /\ function.finalize.present
    /\ Len(function.finalize.input) = 2
    /\ Len(Invocations(function.block)) = 2
    /\ Len(Recorded(function.block)) = 2
    /\ Len(Recorded(function.finalize.block)) = 2
    /\ flattener.counter > 4
    /\ flattener.returns = <<>>
    /\ flattener.finalizes = <<>>

\* The values recorded for position i of the finalize invocations.
PositionRecords(block, i) ==
    [j \in 1..Len(Invocations(block)) |->
        [guard |-> Invocations(block)[j].guard,
         expression |-> Invocations(block)[j].arguments[i]]]

\* The value of argument i of the Finalize at position f under env.
Finalized(block, f, i, env) ==
    Operand(Execute(block, 1, f - 1, EmptyStore, env), block[f].arguments[i])

====
